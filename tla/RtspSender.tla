----------------------------- MODULE RtspSender -----------------------------
(***************************************************************************)
(* The RTSP sender of the inference pipeline (src/nvidia_pipe/send.py): a  *)
(* bounded queue of encoded packets, a worker process that muxes them, and *)
(* a monitor thread that replaces a worker which died or went silent.      *)
(*                                                                         *)
(* Four parties interleave: the pipeline's thread, which submits packets   *)
(* and finally stops the sender, the monitor thread, the worker process,   *)
(* and the thread that reports statistics, which reads connection_status.  *)
(*                                                                         *)
(* multiprocessing.Queue and PyAV are external.  A read of the queue holds *)
(* its reader lock while it waits; av.open and mux succeed, raise, or do   *)
(* not return.  terminate() ends a process on the platform of the project, *)
(* so that the kill() behind it is left out.                               *)
(***************************************************************************)
EXTENDS Naturals, Sequences, FiniteSets

CONSTANTS
  Workers,        \* worker processes; one that was reaped may stand for a new one
  None,           \* no process, nobody
  QueueSize,      \* packets the queue holds, 30 in the code
  MaxPackets,     \* packet numbers; later packets all have the last one
  Faults          \* what may go wrong in a run

FaultKinds == {"refused", "hang", "crash"}

ASSUME SenderAssumption ==
  /\ None \notin Workers \cup {"main", "monitor"}
  /\ Workers # {}
  /\ QueueSize \in Nat \ {0}
  /\ MaxPackets \in Nat \ {0}
  /\ Faults \subseteq FaultKinds

VARIABLES
  queue,          \* Sender._queue
  submitted,      \* the number of the last packet the pipeline made
  incoming,       \* the packet submit() was called with
  main,           \* where the pipeline's thread is
  monitor,        \* where the monitor thread is
  lock,           \* who holds Sender._lock
  monitorStop,    \* Sender._monitor_stop
  process,        \* Sender._process
  worker,         \* the worker processes
  heartbeat,      \* whether the heartbeat is younger than its timeout
  hasSuccessfulMux,
  awaitingMux,
  last,           \* the last packet the server received
  reader          \* where the statistics thread is in connection_status

flagVars == <<heartbeat, hasSuccessfulMux, awaitingMux>>
parentVars == <<main, monitor, lock, monitorStop, process>>
inputVars == <<submitted, incoming>>
vars == <<queue, inputVars, parentVars, worker, flagVars, last, reader>>

Packet == [n : 1 .. MaxPackets, key : BOOLEAN]
NoPacket == [n |-> 0, key |-> FALSE]

(***************************************************************************)
(* A worker waits for a packet, tries to send the one it holds, backs off  *)
(* after an error, or is in a call that does not return.                   *)
(*   stop         its shutdown event                                       *)
(*   awaitingKey  awaiting_keyframe in send()                              *)
(*   connected    whether its container has carried a packet               *)
(*   muxed        whether it has muxed a packet since it was started       *)
(***************************************************************************)
WorkerStates == {"none", "waiting", "sending", "backoff", "hung"}

WorkerType == [pc : WorkerStates, hand : Packet \cup {NoPacket}, stop : BOOLEAN,
               awaitingKey : BOOLEAN, connected : BOOLEAN, muxed : BOOLEAN]

NoWorker == [pc |-> "none", hand |-> NoPacket, stop |-> FALSE,
             awaitingKey |-> TRUE, connected |-> FALSE, muxed |-> FALSE]

Alive(p) == worker[p].pc # "none"

TypeOK ==
  /\ queue \in Seq(Packet) /\ Len(queue) <= QueueSize
  /\ submitted \in 0 .. MaxPackets
  /\ incoming \in Packet \cup {NoPacket}
  /\ main \in {"running", "full", "evicted", "stopCalled", "stopping", "joining", "stopped"}
  /\ monitor \in {"asleep", "woken", "joining", "reaped", "checked", "ended"}
  /\ lock \in {None, "main", "monitor"}
  /\ monitorStop \in BOOLEAN
  /\ process \in Workers \cup {None}
  /\ worker \in [Workers -> WorkerType]
  /\ heartbeat \in {"fresh", "stale"}
  /\ hasSuccessfulMux \in BOOLEAN
  /\ awaitingMux \in BOOLEAN
  /\ last \in Packet \cup {NoPacket}
  /\ reader \in {"idle", "checkNone", "checkAlive", "dead"}

-----------------------------------------------------------------------------
(***************************************************************************)
(* _start_process and _stop_process, which run under the lock.             *)
(***************************************************************************)

\* Mutant: the flag keeps what the previous worker left in it.
StartProcessUnreset(p) ==
  /\ ~Alive(p)
  /\ heartbeat' = "fresh"
  /\ process' = p
  /\ worker' = [worker EXCEPT ![p] = [NoWorker EXCEPT !.pc = "waiting"]]
  /\ UNCHANGED awaitingMux

StartProcess(p) ==
  /\ ~Alive(p)
  /\ heartbeat' = "fresh"
  /\ awaitingMux' = TRUE
  /\ process' = p
  /\ worker' = [worker EXCEPT ![p] = [NoWorker EXCEPT !.pc = "waiting"]]

RequestWorkerStop == worker' = [worker EXCEPT ![process].stop = TRUE]

\* Mutant: a worker that does not leave in a second is given up, not terminated.
JoinWorkerOnly ==
  /\ worker[process].pc \in {"none", "sending", "hung"}
  /\ process' = None
  /\ UNCHANGED worker

\* join(1) returns because the worker left, or the worker is terminated.  Only a
\* call of PyAV keeps a worker from noticing its event within that second.
JoinWorker ==
  /\ worker[process].pc \in {"none", "sending", "hung"}
  /\ worker' = [worker EXCEPT ![process] = NoWorker]
  /\ process' = None

-----------------------------------------------------------------------------
(***************************************************************************)
(* The pipeline's thread: submit() and stop().                             *)
(***************************************************************************)

Submit(k) ==
  LET packet == [n |-> IF submitted < MaxPackets THEN submitted + 1 ELSE MaxPackets,
                 key |-> k] IN
  /\ main = "running"
  /\ submitted' = packet.n
  /\ incoming' = packet
  /\ IF Len(queue) < QueueSize
       THEN queue' = Append(queue, packet) /\ UNCHANGED main
       ELSE main' = "full" /\ UNCHANGED queue        \* for a second
  /\ UNCHANGED <<monitor, lock, monitorStop, process, worker, flagVars, last, reader>>

\* A worker that waits on the queue holds its reader lock.
ReaderLocked == \E p \in Workers : worker[p].pc = "waiting"

\* Mutant: the oldest packet is looked at and stays.
EvictPeek ==
  /\ main = "full" /\ queue # << >>
  /\ main' = "evicted"
  /\ UNCHANGED <<queue, inputVars, monitor, lock, monitorStop, process, worker, flagVars,
                 last, reader>>

\* The oldest packet goes.
Evict ==
  /\ main = "full" /\ queue # << >>
  /\ queue' = Tail(queue)
  /\ main' = "evicted"
  /\ UNCHANGED <<inputVars, monitor, lock, monitorStop, process, worker, flagVars, last,
                 reader>>

\* get_nowait raises Empty, and the packet is dropped instead.
EvictMisses ==
  /\ main = "full"
  /\ queue = << >> \/ ReaderLocked
  /\ main' = "running"
  /\ UNCHANGED <<queue, inputVars, monitor, lock, monitorStop, process, worker, flagVars,
                 last, reader>>

\* Mutant: the new packet goes to the end it is read from.
PutNewestFirst ==
  /\ main = "evicted"
  /\ queue' = <<incoming>> \o queue
  /\ main' = "running"
  /\ UNCHANGED <<inputVars, monitor, lock, monitorStop, process, worker, flagVars, last,
                 reader>>

PutNewest ==
  /\ main = "evicted"
  /\ queue' = Append(queue, incoming)
  /\ main' = "running"
  /\ UNCHANGED <<inputVars, monitor, lock, monitorStop, process, worker, flagVars, last,
                 reader>>

Stop ==
  /\ main = "running"
  /\ monitorStop' = TRUE
  /\ main' = "stopCalled"
  /\ UNCHANGED <<queue, inputVars, monitor, lock, process, worker, flagVars, last, reader>>

\* Mutant: stop() does not wait for a lock that is taken.
StopLocksTry ==
  /\ main = "stopCalled"
  /\ IF lock = None
       THEN lock' = "main" /\ main' = "stopping"
       ELSE main' = "stopped" /\ UNCHANGED lock
  /\ UNCHANGED <<queue, inputVars, monitor, monitorStop, process, worker, flagVars, last,
                 reader>>

\* Mutant: the lock is taken first, and the monitor is waited for without a limit.
StopLocksThenJoins ==
  /\ main = "stopCalled"
  /\ \/ lock = None /\ lock' = "main" /\ UNCHANGED main
     \/ lock = "main" /\ monitor = "ended" /\ main' = "stopping" /\ UNCHANGED lock
  /\ UNCHANGED <<queue, inputVars, monitor, monitorStop, process, worker, flagVars, last,
                 reader>>

\* The join of the monitor ends with it or after two seconds.
StopLocks ==
  /\ main = "stopCalled" /\ lock = None
  /\ lock' = "main"
  /\ main' = "stopping"
  /\ UNCHANGED <<queue, inputVars, monitor, monitorStop, process, worker, flagVars, last,
                 reader>>

StopWorker ==
  /\ main = "stopping"
  /\ IF process = None
       THEN /\ main' = "stopped"
            /\ lock' = None
            /\ UNCHANGED worker
       ELSE /\ RequestWorkerStop
            /\ main' = "joining"
            /\ UNCHANGED lock
  /\ UNCHANGED <<queue, inputVars, monitor, monitorStop, process, flagVars, last, reader>>

StopJoins ==
  /\ main = "joining"
  /\ JoinWorker
  /\ main' = "stopped"
  /\ lock' = None
  /\ UNCHANGED <<queue, inputVars, monitor, monitorStop, flagVars, last, reader>>

MainStep == Evict \/ EvictMisses \/ PutNewest \/ StopLocks \/ StopWorker \/ StopJoins

-----------------------------------------------------------------------------
(***************************************************************************)
(* The monitor thread.                                                     *)
(***************************************************************************)

MonitorWakes ==
  /\ monitor = "asleep"
  /\ monitor' = IF monitorStop THEN "ended" ELSE "woken"
  /\ UNCHANGED <<queue, inputVars, main, lock, monitorStop, process, worker, flagVars, last,
                 reader>>

\* Mutant: only a worker that has died is replaced.
LostDead == process # None /\ ~Alive(process)

Lost == process # None /\ (~Alive(process) \/ heartbeat = "stale")

\* Under the lock: nothing to do, or the worker is asked to stop.
MonitorChecks ==
  /\ monitor = "woken" /\ lock = None
  /\ IF Lost
       THEN /\ lock' = "monitor"
            /\ monitor' = "joining"
            /\ RequestWorkerStop
       ELSE /\ monitor' = "asleep"
            /\ UNCHANGED <<lock, worker>>
  /\ UNCHANGED <<queue, inputVars, main, monitorStop, process, flagVars, last, reader>>

MonitorJoins ==
  /\ monitor = "joining"
  /\ JoinWorker
  /\ monitor' = "reaped"
  /\ UNCHANGED <<queue, inputVars, main, lock, monitorStop, flagVars, last, reader>>

\* Mutant: the test of the stop event is the wrong way round.
MonitorAsksInverted ==
  /\ monitor = "reaped"
  /\ IF ~monitorStop
       THEN monitor' = "asleep" /\ lock' = None
       ELSE monitor' = "checked" /\ UNCHANGED lock
  /\ UNCHANGED <<queue, inputVars, main, monitorStop, process, worker, flagVars, last, reader>>

MonitorAsks ==
  /\ monitor = "reaped"
  /\ IF monitorStop
       THEN monitor' = "asleep" /\ lock' = None
       ELSE monitor' = "checked" /\ UNCHANGED lock
  /\ UNCHANGED <<queue, inputVars, main, monitorStop, process, worker, flagVars, last, reader>>

MonitorStarts(p) ==
  /\ monitor = "checked"
  /\ StartProcess(p)
  /\ monitor' = "asleep"
  /\ lock' = None
  /\ UNCHANGED <<queue, inputVars, main, monitorStop, hasSuccessfulMux, last, reader>>

MonitorStep ==
  \/ MonitorWakes
  \/ MonitorChecks
  \/ MonitorJoins
  \/ MonitorAsks
  \/ \E p \in Workers : MonitorStarts(p)

-----------------------------------------------------------------------------
(***************************************************************************)
(* The worker process: queue_packets() and send().                         *)
(***************************************************************************)

WorkerGone(p) == worker' = [worker EXCEPT ![p] = NoWorker]

Take(p) ==
  /\ worker[p].pc = "waiting" /\ ~worker[p].stop
  /\ queue # << >>
  /\ queue' = Tail(queue)
  /\ worker' = [worker EXCEPT ![p].pc = "sending", ![p].hand = Head(queue)]
  /\ UNCHANGED <<inputVars, parentVars, flagVars, last, reader>>

\* The shutdown event is seen before the next read and before the next attempt; a
\* read that was under way takes one more packet out of the queue.
Leave(p) ==
  /\ worker[p].pc \in {"waiting", "sending"} /\ worker[p].stop
  /\ WorkerGone(p)
  /\ \/ UNCHANGED queue
     \/ worker[p].pc = "waiting" /\ queue # << >> /\ queue' = Tail(queue)
  /\ UNCHANGED <<inputVars, parentVars, flagVars, last, reader>>

Discard(p) ==
  /\ worker[p].pc = "sending"
  /\ worker[p].awaitingKey /\ ~worker[p].hand.key
  /\ worker' = [worker EXCEPT ![p].pc = "waiting", ![p].hand = NoPacket]
  /\ UNCHANGED <<queue, inputVars, parentVars, flagVars, last, reader>>

\* The packet may be sent: a call of PyAV is made, perhaps with the event set.
Sendable(p) ==
  worker[p].pc = "sending" /\ (worker[p].awaitingKey => worker[p].hand.key)

\* A connection is opened if there is none; the packet reaches the server.
Mux(p) ==
  /\ Sendable(p)
  /\ last' = worker[p].hand
  /\ worker' = [worker EXCEPT ![p].pc = "waiting", ![p].hand = NoPacket,
                              ![p].awaitingKey = FALSE, ![p].connected = TRUE,
                              ![p].muxed = TRUE]
  /\ heartbeat' = "fresh"
  /\ hasSuccessfulMux' = TRUE
  /\ awaitingMux' = FALSE
  /\ UNCHANGED <<queue, inputVars, parentVars, reader>>

\* Mutant: the next connection begins wherever the stream is.
MuxFailsKeyless(p) ==
  /\ Sendable(p) /\ "refused" \in Faults
  /\ worker' = [worker EXCEPT ![p].pc = "backoff", ![p].connected = FALSE]
  /\ UNCHANGED <<queue, inputVars, parentVars, flagVars, last, reader>>

\* av.open or mux raises; the container is closed.
MuxFails(p) ==
  /\ Sendable(p) /\ "refused" \in Faults
  /\ worker' = [worker EXCEPT ![p].pc = "backoff", ![p].connected = FALSE,
                              ![p].awaitingKey = TRUE]
  /\ UNCHANGED <<queue, inputVars, parentVars, flagVars, last, reader>>

\* The same packet is tried again after a second, unless the event is set.
Retry(p) ==
  /\ worker[p].pc = "backoff"
  /\ IF worker[p].stop
       THEN WorkerGone(p)
       ELSE worker' = [worker EXCEPT ![p].pc = "sending"]
  /\ UNCHANGED <<queue, inputVars, parentVars, flagVars, last, reader>>

MuxHangs(p) ==
  /\ Sendable(p) /\ "hang" \in Faults
  /\ worker' = [worker EXCEPT ![p].pc = "hung"]
  /\ UNCHANGED <<queue, inputVars, parentVars, flagVars, last, reader>>

\* The native code takes the process down.
WorkerCrashes(p) ==
  /\ Sendable(p) /\ "crash" \in Faults
  /\ WorkerGone(p)
  /\ UNCHANGED <<queue, inputVars, parentVars, flagVars, last, reader>>

WorkerStep(p) == Take(p) \/ Leave(p) \/ Discard(p) \/ Mux(p) \/ Retry(p)

WorkerFault(p) == MuxFails(p) \/ MuxHangs(p) \/ WorkerCrashes(p)

\* The worker is gone, or in a call that does not return.
Silent == process # None /\ worker[process].pc \in {"none", "hung"}

\* Ten seconds without a successful mux.
HeartbeatExpires ==
  /\ heartbeat = "fresh"
  /\ heartbeat' = "stale"
  /\ UNCHANGED <<queue, inputVars, parentVars, worker, hasSuccessfulMux, awaitingMux, last,
                 reader>>

-----------------------------------------------------------------------------
(***************************************************************************)
(* The statistics thread reads connection_status, which loads _process     *)
(* twice.                                                                  *)
(***************************************************************************)

readerKept == <<queue, inputVars, parentVars, worker, flagVars, last>>

ReadFlags ==
  /\ reader = "idle"
  /\ hasSuccessfulMux /\ ~awaitingMux
  /\ reader' = "checkNone"
  /\ UNCHANGED readerKept

ReadNone ==
  /\ reader = "checkNone"
  /\ reader' = IF process = None THEN "idle" ELSE "checkAlive"
  /\ UNCHANGED readerKept

\* None has no is_alive: AttributeError leaves the thread's loop.
ReadAlive ==
  /\ reader = "checkAlive"
  /\ reader' = IF process = None THEN "dead" ELSE "idle"
  /\ UNCHANGED readerKept

ReaderStep == ReadFlags \/ ReadNone \/ ReadAlive

-----------------------------------------------------------------------------

\* start() has run: the first worker and the monitor are there.
Init ==
  /\ queue = << >>
  /\ submitted = 0
  /\ incoming = NoPacket
  /\ main = "running"
  /\ monitor = "asleep"
  /\ lock = None
  /\ monitorStop = FALSE
  /\ process \in Workers
  /\ worker = [p \in Workers |-> IF p = process THEN [NoWorker EXCEPT !.pc = "waiting"]
                                                ELSE NoWorker]
  /\ heartbeat = "fresh"
  /\ hasSuccessfulMux = FALSE
  /\ awaitingMux = TRUE
  /\ last = NoPacket
  /\ reader = "idle"

Next ==
  \/ \E k \in BOOLEAN : Submit(k)
  \/ Stop
  \/ MainStep
  \/ MonitorStep
  \/ \E p \in Workers : WorkerStep(p) \/ WorkerFault(p)
  \/ HeartbeatExpires
  \/ ReaderStep

Spec == Init /\ [][Next]_vars

(***************************************************************************)
(* Threads and processes run, and time passes while a worker is silent.    *)
(* Whether packets come, when the sender is stopped and whether PyAV       *)
(* refuses or hangs is up to the environment; a call that does not hang    *)
(* returns.                                                                *)
(***************************************************************************)
FairSpec ==
  /\ Spec
  /\ WF_vars(MainStep)
  /\ WF_vars(MonitorStep)
  /\ WF_vars(HeartbeatExpires /\ Silent)
  /\ \A p \in Workers : WF_vars(WorkerStep(p))

-----------------------------------------------------------------------------
(***************************************************************************)
(* Safety.                                                                 *)
(***************************************************************************)

\* A replaced worker is gone before the next one is started (send.py:128): no
\* two workers read the queue and publish to the same address.
OneWorker == \A p, q \in Workers : Alive(p) /\ Alive(q) => p = q

\* stop() (send.py:92) against a monitor that is about to restart: once stop()
\* has returned there is no worker, and none comes back.
StoppedForGood == main = "stopped" => \A p \in Workers : ~Alive(p)

\* What the server sees is a stream of RtspOutput: one publisher at a time, a
\* keyframe first, nothing out of order, over evictions, retries and restarts.
Output == INSTANCE RtspOutput WITH
  publishers <- {p \in Workers : worker[p].connected}

ImplementsRtspOutput == Output!Spec

\* The value of connection_status (send.py:104), all flags read at once.
Connected ==
  /\ hasSuccessfulMux /\ ~awaitingMux
  /\ process # None /\ Alive(process)
  /\ heartbeat = "fresh"

\* The flags outlive a worker: a restarted sender is not shown as connected on
\* the strength of what its predecessor sent.
ConnectedIsEarned == Connected => worker[process].muxed

-----------------------------------------------------------------------------
(***************************************************************************)
(* Liveness, under FairSpec.                                               *)
(***************************************************************************)
Working(p) == Alive(p) /\ worker[p].pc # "hung"

\* A sender whose worker is gone, or stuck in a call, gets one that works, unless it is
\* being stopped (send.py:121).
WorkerReplaced ==
  (\A p \in Workers : ~Working(p)) ~> (monitorStop \/ \E p \in Workers : Working(p))

\* stop() returns: it waits for no thread that waits for it.
StopReturns == monitorStop ~> main = "stopped"

-----------------------------------------------------------------------------
(***************************************************************************)
(* What the documents say and the code does not do.                        *)
(***************************************************************************)

\* 006, FR-009: a running pipeline goes on reporting its statistics.
ReporterSurvives == reader # "dead"

=============================================================================
