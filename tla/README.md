# pipe-works: formal models

TLA+ models of the parts of pipe-works whose correctness depends on the order in which processes,
threads and connections take their steps; model-checking runs for TLC; and proofs for TLAPS.

    tlc -workers 2 -config ConductorSafety.cfg MCConductor.tla     # a run: its .cfg, its MC module
    tlapm ConductorProofs.tla                                      # a proof module

`PROJECT.json` names, for each definition, the source lines it stands for, for each run its
question, for each property a change of the code that would break it, and for each hazard of the
code the properties that watch it.

## 1. The system

pipe-works runs video pipelines (RTSP in, inference, RTSP out) and supervises them. It holds two
generations of the same idea. The *plumber* starts pipelines as children and keeps their statistics.
The *conductor* replaces it: its *stream processes* are independent of it and survive its restart.

| Part | Source | State | Operations | Talks to |
|---|---|---|---|---|
| Supervisor | `conductor/process/supervisor.py` `stream_connection.py` `windows_process.py` | `_children`, `_process_statuses`, `_last_heartbeats`; a receive thread per connection | start, stop, add, update, delete, reconnect on start, heartbeat monitor | stream processes over a named pipe, the operating system's process list, the repository, the broker |
| Process repository | `conductor/process/process_repository.py` | SQLite table | CRUD | called by the supervisor |
| HTTP server, broker, page | `conductor/web/` | subscribers, history, event queues | routes, two WebSockets | supervisor threads on one side, browsers on the other |
| Stream process | `stream/{cli,guard,pipeline,receive,args}.py` | named mutex, listener, current connection, log queue, video pipeline thread | accept, hello, stop, heartbeat, log relay | the conductor |
| Plumber | `plumber/cli.py` `plumber/index.html` | `_processes`, `_stopped`, `_statistics` under one `RLock` | start, start_all, stop, stop_all, record_statistics, status | units (children), HTTP handlers |
| Unit | `nvidia_pipe/cli.py` | frame counters, reporter thread, sender, reloaded model, parameters and postprocessing | the frame loop, three `refresh()`, a report every second | plumber over HTTP, sender, receiver, result queue, an editor of its files |
| RTSP sender | `nvidia_pipe/send.py` | packet queue, worker process, shared flags, monitor thread | start, submit, stop, connection_status | the worker over `multiprocessing.Queue` |
| Inference result queue | `nvidia_pipe/infer_queue.py` | copies on the GPU, pending results, result queue, publisher and consumer threads | submit, close | the frame loop, the user's callback |
| RTSP receiver, codec | `nvidia_pipe/{receive,decode,encode,stream}.py` | connection status, jitter buffer | generators the frame loop drives | PyAV, NVDEC, NVENC |

What is hard here, and is what the models are for:

* **Interleaving.** Request threads, receive threads, the heartbeat monitor and the constructor of
  the supervisor share three dictionaries, and let the lock go between reading one and acting on it.
* **Crash and restart.** The conductor and its stream processes end independently; each has to notice,
  and messages may be on their way when it happens.
* **Late steps.** `_onClose` of an old connection, a heartbeat thread that holds a replaced connection,
  a report that waits for the plumber's lock, a monitor that is restarting a worker while `stop()` runs.
* **Waiting for each other.** `stop()` joins a unit with the lock in its hands that the unit's report
  needs; `Sender.stop()` joins a monitor that may be joining a worker; a client may wait in a
  pipe's backlog for a handshake.
* **Stale reads.** A file is edited while it is loaded, between its revision and its contents; a status is read
  after what it describes has gone.
* **Limits.** A queue is full, or is emptied between the attempt to put and the eviction; a stream must still
  begin with a keyframe and stay in order, a result must not be delivered twice.

What each part has to get right: one process per identifier and a status that settles (conductor); one
conversation at a time, a stop that takes effect, a released connection after the conductor is gone
(stream process); one worker, in-order output, honest flags, recovery from hung calls (sender); one
unit per pipeline, no unit out of reach, an honest state, calls that return (plumber); every frame once and in
order, counters that agree with the inference interval, a saved file in use, no result twice and none lost but
in an overflow, and a loop that waits for its input only (unit).

## 2. The modules

    SingleInstance   <-- refined by --  Conductor, Plumber
    RtspOutput       <-- refined by --  RtspSender
    Delivery         <-- refined by --  InferQueue, inside Unit

    ControlPipe <- StreamProcess <- Supervisor <- Conductor      (each EXTENDS the one before)
    LogRelay <- LogFeed -- INSTANCE --> EventBroker <-- INSTANCE -- StatusFeed
    HotReload, Receive, InferQueue <- Unit                       (Unit EXTENDS the three)
    MCConductor, MCRtspSender, MCPlumber, MCLogFeed, MCStatusFeed, MCUnit    the instances for TLC
    ConductorProofs <- ConversationProofs     theorems about the conductor and its stream processes
    SenderProofs, PlumberProofs               about the sender and the plumber
    LogProofs, StatusProofs                   about LogFeed and StatusFeed
    UnitProofs                                about the unit
    SequenceLemmas                            what a queue holds after Append, Tail and \o; used by the last three

**`SingleInstance`** is the promise of `acquire_process_mutex` and of `PipelineManager._lock`: for each
identifier a set of running processes that is empty or has one member, and changes by one entering or
leaving. **`RtspOutput`** is what the RTSP server may see: one publisher at a time, a publisher that
connects sends a keyframe first, packet numbers never go back. **`Delivery`** is what a bounded
queue of results promises: a result enters it when there is room and is handed over at most once, in the order of the
queue. It is lost in one way: whoever finds the queue full drops the oldest in it, once, and takes its place, or, if the
consumer has emptied the queue in the meantime, is dropped itself. The order in which results enter is left open.

**`ControlPipe`** is the Windows named pipe as `multiprocessing.connection` offers it. It is external, and
modelled from the calls both ends make. A link is `free`, then `pending` (the client has opened an
instance), `open` (both authenticated), and ends in a state that tells which end went first and whether
that was before (`refused`, `abandoned`) or after (`broken`, `orphaned`) the handshake. What was sent before
an end closed can still be read.

**`StreamProcess`** is `stream/cli.py` with `guard.py` and `pipeline.py`: `proc[p].pc` follows `main()` and
`run()`: `spawned`, `guarded` (the mutex is held), `accepting`, `serving`, `stopping`, `closed` (the listener
is), `lingering` (the mutex is released, the pipeline thread keeps the interpreter alive). The heartbeat
thread takes the connection (`HeartbeatTake`) and uses it (`HeartbeatSend`) in two steps, because the code
lets `_connection_lock` go between them.

**`Supervisor`** is the conductor: `thread[t]` is the call a request thread, or the constructor (`Boot`),
is in. `startProcess` is `StartRequest`, `StartLocate`, `StartSpawn`, then for each attempt `FindChild`,
`Connect`/`ConnectFails`, `Handshake`/`HandshakeRefused`, `Register`, `SendHello`/`HelloFails`, and `GiveUp`;
`stopProcess` is `StopRequest`, `StopFindChild`, `SendStop`, `StopLocate`, `Kill`/`KillFails`. Receive threads
are `ReceiveBeat`, `BeatRunning`, `NotifyClosed`, `Unregister`, `MarkStopped`; the monitor is
`MonitorScan` and `MonitorMark`, with the time in between in which a heartbeat may arrive. A step is
what a thread does between two points at which another thread can come in.

**`Conductor`** composes them, with crashes on both sides, and states the properties.

**`RtspSender`** is `nvidia_pipe/send.py`: the pipeline's thread (`Submit`, `Evict`, `PutNewest`, `Stop...`),
the monitor thread (`MonitorWakes` ... `MonitorStarts`), the worker processes and the reader of
`connection_status`, which loads `_process` twice.

**`Plumber`** is `plumber/cli.py` and the entry point of its units in `nvidia_pipe/cli.py`: `thread[t]` is the
call a handler or the main thread is in, `at` the pipeline it holds the lock for. `start()` spawns
(`StartSpawns`) and enters (`StartRecords`) with the lock held, while reports pile up and the main thread
may be interrupted; `stop()` terminates (`StopTerminates`) and joins (`StopJoins`). Reports are sent, travel,
and are recorded in any order. A unit's reporter thread is there from its start; a snapshot that raises ends it
(`ReporterRaises`, which is `ReporterSurvives` of the sender seen from here) while the unit runs on. `late` remembers that
a unit was started when `stop_all()` had done with its pipeline; nothing in the code knows of it.

**`LogRelay`** is the log path inside `stream/cli.py`: `LatestLogQueue`, whose `put()` holds a lock that `get()`
does not (`Emit`, `EmitEvicts`), the log handler, and `_sendLogs` from the wait for a connection to the log that is
put back (`TakeLog`, `LookUp`, `SendLog`, `SendFails`, `PutBack`, `SenderClears`). The connection is abstracted to its
two ends, `serving` and `reading`; that there is one at a time is what `Conductor` shows.

**`EventBroker`** is `process_event_broker.py` with the WebSocket handlers of `http_server.py`: the copy of the
subscribers a publisher takes under the lock (`Announce`), the calls it then schedules one by one
(`Schedule`), the event loop (`PutLatest`), and the handlers (`TakeEvent`, `SendEvent`, `SendDisconnects`). It is
used twice. **`LogFeed`** composes it with `LogRelay`, the receive thread, the history and the log dialog. An
event is its place in the order of publication, so that "in order", "once" and "without a gap" can be said.
**`StatusFeed`** composes it with `_setProcessStatus`, which publishes after it has let its lock go, and with
the page's status socket and requests.

**`HotReload`** is `LiveModel`, `LiveParameters` and `LivePostprocess` of `nvidia_pipe/cli.py`, one object for
each file: the load and the constructor at the start (`LoadFirst`, `Construct`), and `refresh()` in the steps between
which an editor may write (`FindsUnchanged`, `FindsChange`, `Load`, `Adopt`). The model and the postprocessing compare
the revision again before they use what they have loaded (`Checked`); the parameters do not. A save is a new revision
whose text loads, does not, or is missing; a save in several writes is several of them.

**`Receive`** is `nvidia_pipe/receive.py`, a generator: `Connects`, `ConnectFails`, `ReadFails` and `InputEnds` are the
ways round its outer loop, `Arrives` takes a packet through the jitter buffer. A packet is its place in the order of
arrival, with its connection and its presentation time.

**`InferQueue`** is `nvidia_pipe/infer_queue.py`: `Submit` starts the copy, which the GPU completes in its own time
(`CopyCompletes`, in order, because there is one stream); the publisher's scan is `Collect`, then `LeavePending` or
`Publish` for each result, then `ScanEnds`; `_put_latest` is three steps, `Publish`, `Evict`, `Replace`, because the
consumer may take from the queue between them; the consumer is `ConsumerTop`, `GetResult` and `CallEnds`.

**`Unit`** composes the three with the main thread of `run_pipeline()`: the start in the order of the code
(`StartLoads`, `StartConstructs`, `Started`), then for each frame `ReadPacket`, `RefreshModel`, `RefreshParameters`,
`CallbackReturns` or `CallbackRaises`, `SubmitResult` or `SubmitRaises`, and `Send`; `CloseSetsStop` and `CloseReturns`
are the end. The consumer's thread refreshes the postprocessing (`RefreshPostprocess`). The sender's `submit` may
wait for a second at most (send.py:84) and changes nothing the unit reads, so that it is part of `Send`, and the sender
a model of its own; the reporter's part in the
plumber's lock is in `Plumber`.

## 3. The runs

| Run | What it asks | Instance |
|---|---|---|
| `ConductorSafety` | `TypeOK`; `ImplementsSingleInstance`: one process past the guard per identifier, whatever kills or restarts it; `OneConversation`: one established connection; `ServedIsCurrent`: heartbeat and log threads see the connection being served; `CloseComesFirst`: a late close never meets a successor | 1 identifier, 2 processes, 3 connections, 2 request threads, all four requests, crashes of both sides and of pipelines |
| `ConductorProgress` | `StatusSettles`: the status ends on "stopped" once the processes are gone; `ConnectedIsShown`: and does not stay there while one is connected; `StopTakesEffect`: a stop that was sent ends the process; `OrphanReleased`: a process gives up a connection whose conductor is gone | 2 processes, 2 connections, silence, failing taskkill and crashes, fairness |
| `Sender` | `OneWorker`; `StoppedForGood`; `ConnectedIsEarned`; `ImplementsRtspOutput`; `WorkerReplaced`: a worker that hangs or is lost is ended and another one started; `StopReturns` | 2 worker slots, queue of 2, 3 packet numbers, refused, hanging and crashing calls, fairness |
| `Plumber` | `TypeOK`; `Supervised`: every unit alive can be stopped; `StateIsHonest`; `ImplementsSingleInstance`; `CallsReturn`; `LatestIsShown`: while a unit runs and reports, its latest report is shown again and again; `ShutdownEnds`: Ctrl+C ends the plumber, or what keeps it is a unit started behind the back of `stop_all()` | 1 pipeline, 2 units, 2 handlers, bind failure, crashes, reporters that raise, fairness |
| `Unit` | `TypeOK`; `EachFrameOnce`; `SuccessPerInterval`; `InUseAsNoted`: a noted revision that loads is in use, and no module is newer than noted; `ReleasedInOrder` and `HeldOrReleased`: the jitter buffer sorts what it can and loses no more than it holds; `OvertakenIsReady`; `ImplementsDelivery`: a result is handed over at most once and lost only in the overflow of the queue; `NoBackPressure`; `StatusIsCorrected`; `ResultArrives` | five setups, see the bounds; fairness |
| `LogFeed` | `SessionInOrder`: a session gets each event once and in order, and what it still has to get is the newest without a gap, whenever it subscribed; `PublishedOnce`; `LostForAReason`: only a full queue loses a log, its oldest, and a lost connection those sent on it; `LogsArrive`: none waits for ever while the conductor is connected | 4 logs, queues of 2, 2 connections, 1 session after the other, a restart of the conductor, fairness |
| `StatusFeed` | `ChangeIsFetched`: a page with a socket asks again after every change; `LeaverIsForgotten`: the queue of a page that has left is dropped at the next events | 2 threads, 2 sockets, 2 requests at a time, queues of 1, fairness |
| `OnlyStopEndsTheLoop`, `NoConcurrentRun`, `StartReturns`, `ReporterSurvives`, `StopCleansUp` | expected violations, section 6 | the smallest instance that shows each |

**Bounds.** Two processes are enough for a predecessor and a successor, the only pair the guard and the
pipe tell apart; a slot that was cleaned up stands for a new process, so that chains of any length are
explored. Three connections let an old one close while two wait or are served. `Attempts` (20 in the
code) only decides how often the same steps are retried; 2 includes a retry. `MaxBeats` and `MaxControl`
bound what a link buffers: heartbeats beyond the bound coalesce, and the code sends at most a hello
and a stop per thread on one connection. In the sender the last packet number stands for all later ones; a
queue of two (30 in the code) can be full, be evicted from and be refilled while a worker holds a third
packet. `MaxReports = 1` in the plumber tells reports of different units apart, which is what
`LatestIsShown` is about, and not two of one unit. The identifiers of the conductor share nothing but
the repository, so that one is enough. The plumber's pipelines share its lock: one with two handlers and the main
thread already makes them wait for each other, and the theorems cover the safety of any number of pipelines.
Four logs are one more than a handler holds and its queue can take, so that `_putLatest` evicts; a log that is put back
meets a full queue with three. Sessions share nothing but the copy of the subscribers, and a session that leaves and
comes back is explored with one. `MaxCallbacks` keeps the status from changing while the event loop is behind; both
threads may still have a change to publish at once.
The unit chooses one of five `Setups` in `Init`, each of which opens one of its parts and keeps the others small: the
jitter buffer with four packets of three times over two connections; the counters with four frames, an interval of
two and a result; two saves met by the frame loop; a save met by the consumer; three results in flight. What the parts
share, the main thread and the consumer, is in all of them. `BufferSize = 1` lets a packet be late by too much, by
just enough and not at all; a result queue of one (30 in the code) with three results is full, evicted from while
the consumer takes from it, and refilled.

**Deadlock** is checked in the conductor's runs, where an operator can always act or a conductor always start.
It is not in the runs of the sender, the plumber, the logs and the unit: a sender, a plumber and a unit may be
stopped for good, and a run has only so many logs, packets and connections.

**Fairness.** Threads run, a wait with a time limit ends, a call of the operating system returns.
`Conductor!FairSpec` is weak fairness of each thread's next step; requests, crashes, restarts
and a late heartbeat are owed to nobody. `RtspSender!FairSpec` adds that time passes while a worker is
silent (`HeartbeatExpires /\ Silent`); nothing says that a packet comes, that a call of PyAV succeeds, or that
the reader reads. `Plumber!FairSpec` is strong fairness for those who wait for the lock (`CallStep`,
`RecordStatistics`): a Python lock is not a queue, but every critical section of the manager is finite and
requests come from people and once a second. `SendReport` is weakly fair for a reporter that is there: its loop has
nothing to wait for but a second and an answer with a time limit, until a snapshot raises. That ends it for good, and
`LatestIsShown` is therefore about units whose reporter still is (a unit without one keeps its last report on show, and
perhaps one of its predecessor). `ShutdownEnds` needs no end of the pipelines: it is owed by `terminate()`, and by
`stop_all()` coming to every pipeline, however the handlers start and stop them meanwhile. `LogFeed!FairSpec` and `StatusFeed!FairSpec` are weak fairness of each thread, of the event loop and
of the handlers; logs, changes of status, connections, and pages that come and go are owed to nobody.
`Unit!FairSpec` is weak fairness of the main thread while it works on a frame or closes (`Processing`), of an attempt
to connect, which ends well or not because `av.open` is given a time limit, of the publisher, the consumer and the GPU.
A packet, an edit, the end of the loop and the return of the user's callback are owed to nobody: `NoBackPressure` holds
although the callback never comes back, and `ResultArrives` names that as its exception.

## 4. The proofs

Everything below holds for every value of the constants that meets the modules' assumptions (`None` is not
one of the identifiers, the bounds are positive, a fault is of a known kind).

* **`ConductorProofs`**: `TypeCorrect` needs `CallsOK`, which ties the fields of a thread to where it is
  (a thread that is connecting has a connection). `GuardCorrect` (one process past the guard, `OneGuarded`) and
  `GuardRefines` rest on `GuardHeld`:
  whoever is past the guard holds the mutex of its identifier. That is not implied by "one process per
  identifier", and it is what survives `CloseHandle`, a crash, and `taskkill` of several processes at once. The
  argument first shows that every step of the conductor is, for the operating system, one of a few
  (`NextIsOsStep`), and then needs one step per kind.
* **`ConversationProofs`**: `OneConversationHolds`, `ServedIsCurrentHolds` and `CloseComesFirstHolds` are parts of
  `LinkInv`, or follow from it together with `GuardInv`. `OneConversation` is not inductive: a second connection could be
  accepted beside an open one whose server nobody watches. `ServerHolds` therefore says that a link its server has not
  left belongs to a process of its identifier that still has the pipe, and that this process is serving if the link is
  accepted; `ServesOne` that it serves that link and no other. `CloseComesFirst` needs `BrokenBlocks`: while the
  conductor holds its end of a pipe whose process has gone, no process of that identifier is in its accept loop, because
  the first instance of its pipe still exists; and `ClosingIsBroken`, that such a link is what a
  receive thread is closing.
* **`SenderProofs`**: `OneWorkerAtATime`, `StoppedStays` and `ConnectedCorrect` follow from `LockInv` (who
  holds the lock, by where the main and the monitor thread are) and `WorkerInv` (whoever is alive is `_process`; after
  a join there is none; the flags of a worker that has not muxed are reset). `OutputRefines` adds
  `OrderInv`: the packet in the server's hands, the one in the worker's, the queue and the one being
  submitted are in order, and a worker without a keyframe is not connected.
* **`PlumberProofs`**: `PlumberInv` is inductive. `HolderInv` says what a call relies on between its
  two steps (the unit it has spawned is alive or has ended by itself, is in no table, and its
  pipeline runs no other); `RegisteredInv` that a unit is in the table under its own name; `MainInv` that
  no handler is at work while the main thread may drop a `start_all()`. `UnitsSupervised`, `StateReported` and
  `TypeCorrect` are parts of it. `PlumberRefines` also needs that a pipeline has one unit (`OneUnit`),
  which does not follow from `Supervised` once `start_all()` was interrupted, and is therefore carried along as an
  invariant of its own. `StopAllReaches` is the safety half of `ShutdownEnds`: while `stop_all()` is under way, every unit
  alive belongs to a pipeline it has yet to come to, or was started late (`OnlyLateRemain`), so that only late ones are left
  when it returns. It is inductive together with `PlumberInv`, which says that a unit without a call under way is the one in
  the table (`StopLeavesNone`), and that a handler starts nothing without the lock (`HandlerCallsLate`).
* **`LogProofs`** has three parts. *Where a log is*: `LogInv` says that the queue, the `put()` that waits, the sender, the
  wire and what is published have no log in common and none twice, and that nothing is beyond the last log created. Every
  step is a move between these places (`StepMoves`: `MovesNew` ... `MovesNowhere`), from which `PublishedOnceHolds` and
  `LostForAReasonHolds` follow. *What a session is owed*: `SessionInOrder` is not inductive, because a session begins with
  the history; `FeedInv` adds that the history is the newest of what was published (`NewestPublished`), that what is being
  announced is the last event (`AnnouncesLast`) and that a handler without a subscription has nothing in hand. That a session which awaits nothing has been sent the
  last event, or the history is empty, is carried along in `Flow`. The way of an
  event through announcement, callback, queue and handler is four lemmas about `Flow`, which know nothing of the state.
  `SessionInOrderHolds` also needs `LogInv`: logs are published once, so that there are no more events than logs and no
  event is `None`. *The connection*: `ServedIsReadyHolds` says that while both ends of the served connection are open, it is
  the one the log thread sends on. It rests on `ClearsUnusable`: a connection the log thread is about to clear has been
  closed, and its number does not come back. This is the safety that `LogsArrive` rests on.
* **`StatusProofs`**: `HintStaysUnderway` is the safety half of `ChangeIsFetched`. While the page is owed an answer, one of
  six stages has a hint for it: a change that is not published yet, an announcement, a callback, its queue, its handler, or a
  request it has made. A full queue drops an event only for another; the socket of the page is a subscriber and present as
  long as the page has it (`SocketServed`). That each stage is left again is liveness.
* **`UnitProofs`** first shows that a step of the unit is, for each of its parts, one of that part's or none
  (`NextReloads`, `NextReceives`, `NextQueues`, `NextMoves`), so that each invariant is proved over the few steps that touch it.
  `ReloadCorrect` rests on `ReloadInv`, which orders the four revisions an object knows: what is in use is not newer
  than what was read, that not newer than the file. `TypeCorrect` needs that a `refresh()` under way belongs to the thread
  that made it, and that the first packet of the buffer exists (a least element of a finite set). `FramesCorrect`
  bounds the output by the frame in hand (`FramesInv`), `InferenceCorrect` ties `should_infer` to the frame index at
  each point of the loop (`InferInv`), and `BufferCorrect` adds that what is held belongs to the current connection (`BufferInv`).
  `OrderCorrect` (`ReleasedInOrder`) counts: a packet that is released past a held one was overtaken by everything the
  buffer holds besides (`OvertakenByMore`), which is as much as it may hold; what is still held comes after what was released
  (`RestComesLater`), unless a packet is late by more than the property allows for; `ByTime` is the property itself.
  `OvertakingCorrect` and `DeliveryRefined` see the queue as places (`Incoming`, `Pending`, `Todo`, `InHand`, `Queued`,
  `Done`) and its steps as moves of one result between them (`Shift`). `PlacesInv` says that no result is in two
  places and none is newer than the last frame; `CopiesInv`, that an older result is complete if a newer one is.
  `DeliveryRefined` maps the queue of `Delivery` to `cpu_queue` with, between `Evict` and `Replace`, the result that takes the
  place of the oldest (`Queue`), and what found the queue full to the publisher's hand (`Excess`): the eviction is one step of
  `Delivery`, and `Replace` a stutter. `StepDelivers` shows it action by action.

The invariants named above were checked with TLC on the instances of section 3 before they were proved: `LinkInv` on
that of `ConductorSafety`, `LogInv`, `FeedInv` and `ServedIsReady` on that of `LogFeed`, `HintUnderway` on that of
`StatusFeed`, `OvertakenByMore` and `RestComesLater` on that of `Unit`, `OnlyLateRemain` on that of `Plumber`.

**Only model-checked:** liveness, because the prover has no fairness: `StatusSettles`, `ConnectedIsShown`,
`StopTakesEffect`, `OrphanReleased`, `WorkerReplaced`, `StopReturns`, `CallsReturn`, `LatestIsShown`, `ShutdownEnds`,
`LogsArrive`, `ChangeIsFetched`, `LeaverIsForgotten`, `NoBackPressure`, `StatusIsCorrected` and `ResultArrives`. Every
invariant, action property and refinement that a run checks is a theorem. What `LogRelay` takes from the conductor, one
connection at a time and none before the last was read to its end, is `OneConversation` and `CloseComesFirst`; the
composition of the two modules is argued, not proved.

## 5. What is assumed, and what is not modelled

* *Platform.* The project runs on Windows. `terminate()` and `taskkill` end a process at once, run no `finally`
  and leave its children; a named pipe exists as long as either end of an instance does; the handles of
  an ended process are closed. A pid is not reused while it is being looked at.
* *Sender.* A worker is terminated only inside a call of PyAV: it polls its event twice a second and is
  given one. A worker terminated inside `Queue.get` would leave the reader lock held.
* *Conductor.* `_onClose` (supervisor.py:142) compares the closed connection with the registered one before it
  removes it. `CloseComesFirst` shows that the pipe alone already rules the mix-up out; the comparison is a second
  line of defence, and no run depends on it alone. `updateProcess` changes no key. The text of a request, the
  validation of a form, SQL and paths are left out.
* *Plumber.* A second Ctrl+C in `stop_all()` is left out; the order of the pipelines in `start_all()` and
  `stop_all()` is left open. The kill behind a terminate that takes three seconds is left out. A plumber
  that is itself killed leaves its units, and nothing in the code knows of them afterwards.
* *Feeds.* A session's name is used again when nothing refers to its queue any more. What the conductor receives
  before `HttpServer` has set the publishers reaches nobody (supervisor.py:170); the feeds begin after that. The
  receive threads of successive connections do not overlap. The page's list, its forms and how many lines of a log it
  keeps are left out.
* *Unit.* The decoder and the encoder are external and taken to hand on one frame for each they are given, in order;
  the code keeps the decoder of the first connection for all later ones. A revision, the time and the size of a file,
  is taken never to come back: an edit that keeps both is not seen by the code. For the Python files this must be read as
  coarsely as the interpreter's cache of compiled modules does, which `exec_module` goes through: by the time in whole
  seconds, and the size. Two saves of one size within a second count as one here, and may there. There is one GPU and one copy stream; an
  error of CUDA in `query()`, which would end the publisher, is left out. The duration of a packet and the counts of
  packets out of order decide nothing. `run_pipeline()`'s checks of the configuration are the failure `StartFails`.
* *Not to be modelled:* decoding, encoding and inference (GPU libraries), the examples, the parsing of arguments and
  configuration, layout.

## 6. Where documents and code disagree

Shown by a run:

* `OnlyStopEndsTheLoop`: a conductor that disappears during the handshake, or between hello and ready,
  ends the stream process: the exception leaves `run()` (stream/cli.py:102).
* `NoConcurrentRun`: `main()` releases the mutex while its video pipeline may still run, and the next
  process of that identifier starts a second one (stream/cli.py:193).
* `StartReturns`: the second of two concurrent starts may get a pipe instance nobody will accept, and
  `Client()` has no time limit (supervisor.py:286).
* `ReporterSurvives`: `connection_status` reads `_process` twice and may meet `None`; the reporting thread ends
  (send.py:110).
* `StopCleansUp`: stopping a unit leaves its `rtsp-sender` process behind (plumber/cli.py:180).

Met while modelling, contained in the models, without a run of their own:

* `deleteProcess` deletes the entry of a running process, which no request can stop afterwards
  (supervisor.py:229; 014 asks for a refusal).
* A connection that closes before `_openChild` registers it stays registered until the next start
  (supervisor.py:129).
* A start that finds a connection whose peer has gone, and whose end was not read yet, reports success
  (supervisor.py:110).
* A start that finds the old process on its way out returns without a new one (supervisor.py:238).
* The constructor makes one attempt per process; a process that was not yet listening is never connected
  to (supervisor.py:50).
* `connection_status` stays "connected" while the worker backs off after a lost output (send.py:269-277; 006 says
  disconnected while retrying).
* The monitor may start a worker just after `stop()` has set its event; `stop()` ends it (send.py:129; 004).
* `get_nowait` on a full queue raises `Empty` while a worker waits with the reader lock, and the newest
  packet is dropped instead of the oldest (send.py:89; 004).
* A log that could not be sent goes to the tail of the queue (stream/cli.py:168). It is sent after newer ones, and
  a full queue drops a newer one for it: what is kept is then not "가장 최근에 생성된 항목들", the
  newest (015, SC-003).
* Between two sockets, and between the first request of the page and its first socket, a change of status
  does not reach the page, and a new socket does not make it ask; answers may overtake each other. The page then shows an old status until the
  next change (index.js:239, 517).
* A start request that comes after `stop_all()` leaves a unit the plumber waits for (plumber/cli.py:326-328; 010,
  FR-010). `ShutdownEnds` names such a unit as its exception, and `StopAllReaches` shows that there is no other.
* The port is taken after `start_all()`: if that fails, `main()` raises, and the pipelines it has started run on with nobody
  to stop them; the interpreter waits for their processes (plumber/cli.py:318).
* A reporter whose snapshot raises is gone while its unit runs on (nvidia_pipe/cli.py:99): the plumber keeps showing the last
  report it got, which may be of the unit before. `LatestIsShown` names it as its exception.
* When `submit()` refuses a result, the frame has been counted as a success already and is counted as a failure too
  (cli.py:457; 005, FR-015).
* A file that is edited after `run_pipeline()` has loaded it and before the constructor takes its revision is in use
  in its old form until the next save (cli.py:409; README.md:160; 011, SC-002). `InUseAsNoted` names it as its exception.
* A half-written parameter file that happens to parse replaces the parameters: only the model and the
  postprocessing compare the revision again (cli.py:157; 011).
* `_put_latest` drops the newest result when the consumer empties the queue between the failed put and the
  eviction (infer_queue.py:103; 013, FR-006, wants the oldest dropped). `Delivery` allows for it in this case and no
  other (`DropNewest`).
* What the jitter buffer holds is lost when the connection is (receive.py:90).
* The status stays "connected" after the end of an input until the next attempt has failed (receive.py:93).
* The frame index advances only with calls that return (cli.py:448): a callback that raises on every plain frame
  keeps the loop from its next inference, and no counter shows it.

## 7. Plan

Done in this order: conductor and stream process, sender, plumber, logs and status, and the unit with reloading,
receiver and result queue. What is left:

1. Proofs: the safety that further liveness properties rest on, as `ServedIsReady` and `HintUnderway` are for
   `LogsArrive` and `ChangeIsFetched`, and `StopAllReaches` for `ShutdownEnds`: who writes the status last, for `StatusSettles`; that no thread waits for one that
   waits for it, for `CallsReturn`.
2. `process_repository.py` beyond the set of its rows: the fields that `update()` changes and a start reads.
3. The second Ctrl+C and the kill after three seconds in the plumber; the user interface of the plumber.
4. A composition of `Unit` with `RtspSender`, once a refinement of the sender is small enough to stand for it.
