--------------------------- MODULE StreamProcess ---------------------------
(***************************************************************************)
(* The stream process (src/stream/cli.py, guard.py, pipeline.py): one      *)
(* operating system process per entry of the process table, which guards   *)
(* itself against a duplicate, serves the control pipe one connection at a *)
(* time, reports a heartbeat, and runs the video pipeline in a thread of   *)
(* its own.                                                                *)
(*                                                                         *)
(* Log messages share the connection with the heartbeats and are left to   *)
(* a module of their own: the conductor does not keep state about them.    *)
(***************************************************************************)
EXTENDS ControlPipe

(***************************************************************************)
(* What may go wrong in a run: a process ends on its own, its video        *)
(* pipeline ends on its own, the conductor ends, no heartbeat is seen for  *)
(* three seconds, taskkill is refused.                                     *)
(***************************************************************************)
CONSTANT Faults

FaultKinds == {"process", "pipeline", "conductor", "silence", "taskkill"}

ASSUME FaultsAssumption == Faults \subseteq FaultKinds

VARIABLES
  proc,           \* what runs under each pid: the identifier and its main thread
  pipelineAlive,  \* whether the video pipeline thread runs
  mutexHolder,    \* the process whose handle keeps the named mutex alive
  current,        \* StreamProcess._connection
  beatTarget      \* the connection the heartbeat thread took and will send on

osVars == <<proc, pipelineAlive, mutexHolder>>
processVars == <<osVars, current, beatTarget>>

(***************************************************************************)
(* The main thread of a process: spawned until it holds its mutex, guarded *)
(* until its pipe exists, accepting and serving in the loop of run(),      *)
(* stopping once that loop ends, closed once the pipe is gone, lingering   *)
(* after main() returned while the pipeline thread, which is not a daemon, *)
(* keeps the interpreter alive.                                            *)
(***************************************************************************)
MainStates == {"none", "spawned", "guarded", "accepting", "serving",
               "stopping", "closed", "lingering"}

ProcessTypeOK ==
  /\ proc \in [Pids -> [id : Ids \cup {None}, pc : MainStates]]
  /\ pipelineAlive \in [Pids -> BOOLEAN]
  /\ mutexHolder \in [Ids -> Pids \cup {None}]
  /\ current \in [Pids -> Conns \cup {None}]
  /\ beatTarget \in [Pids -> Conns \cup {None}]

NoProcess == [id |-> None, pc |-> "none"]

ProcessInit ==
  /\ proc = [p \in Pids |-> NoProcess]
  /\ pipelineAlive = [p \in Pids |-> FALSE]
  /\ mutexHolder = [i \in Ids |-> None]
  /\ current = [p \in Pids |-> None]
  /\ beatTarget = [p \in Pids |-> None]

Alive(p) == proc[p].pc # "none"

\* What a query of the process list by command line finds.
ProcessesOf(i) == {p \in Pids : Alive(p) /\ proc[p].id = i}

\* The states between acquire_process_mutex and CloseHandle.
GuardedStates == {"guarded", "accepting", "serving", "stopping", "closed"}

Guarded(p) == proc[p].pc \in GuardedStates

\* The listener exists from its construction to listener.close().
Listening(p) == proc[p].pc \in {"accepting", "serving", "stopping"}

\* accept() creates the next instance of the pipe before it waits.
Backlog(p) == IF proc[p].pc = "accepting" THEN 2 ELSE 1

Goto(p, pc) == proc' = [proc EXCEPT ![p].pc = pc]

-----------------------------------------------------------------------------
(***************************************************************************)
(* The life of a process, as the operating system and the guard see it.    *)
(***************************************************************************)

\* CreateProcess, from subprocess.Popen.
SpawnProcess(p, i) ==
  /\ ~Alive(p)
  /\ proc' = [proc EXCEPT ![p] = [id |-> i, pc |-> "spawned"]]
  /\ UNCHANGED <<pipelineAlive, mutexHolder, current, beatTarget, pipeVars>>

ReleasedBy(p) == [i \in Ids |-> IF mutexHolder[i] = p THEN None ELSE mutexHolder[i]]

\* The end of processes, however it comes: the operating system closes the
\* handles they held, the pipe instances and the mutex among them.
ProcessesGone(ps) ==
  /\ proc' = [p \in Pids |-> IF p \in ps THEN NoProcess ELSE proc[p]]
  /\ pipelineAlive' = [p \in Pids |-> p \notin ps /\ pipelineAlive[p]]
  /\ mutexHolder' = [i \in Ids |-> IF mutexHolder[i] \in ps THEN None ELSE mutexHolder[i]]
  /\ current' = [p \in Pids |-> IF p \in ps THEN None ELSE current[p]]
  /\ beatTarget' = [p \in Pids |-> IF p \in ps THEN None ELSE beatTarget[p]]
  /\ CloseServerEnd({c \in Conns : link[c].server \in ps})

DuplicateFound(i) == mutexHolder[i] # None

\* Mutant: the handle is closed as soon as it was created.
AcquireMutexUnheld(p) ==
  /\ proc[p].pc = "spawned"
  /\ IF DuplicateFound(proc[p].id)
       THEN ProcessesGone({p})
       ELSE /\ Goto(p, "guarded")
            /\ UNCHANGED <<pipelineAlive, mutexHolder, current, beatTarget, pipeVars>>

AcquireMutex(p) ==
  /\ proc[p].pc = "spawned"
  /\ IF DuplicateFound(proc[p].id)
       THEN ProcessesGone({p})
       ELSE /\ mutexHolder' = [mutexHolder EXCEPT ![proc[p].id] = p]
            /\ Goto(p, "guarded")
            /\ UNCHANGED <<pipelineAlive, current, beatTarget, pipeVars>>

\* An instance of the pipe lives until both of its ends are closed.
PipeInUse(i) == \E c \in Conns : link[c].id = i /\ link[c].state # "free"

\* Mutant: the listener takes the instances of a predecessor's pipe for its own.
OpenListenerShared(p) ==
  /\ proc[p].pc = "guarded"
  /\ Goto(p, "accepting")
  /\ pipelineAlive' = [pipelineAlive EXCEPT ![p] = TRUE]
  /\ UNCHANGED <<mutexHolder, current, beatTarget, pipeVars>>

\* A listener wants the first instance of its pipe.  While the conductor still
\* holds the end of a predecessor's, the constructor raises and main() ends.
OpenListener(p) ==
  /\ proc[p].pc = "guarded"
  /\ IF PipeInUse(proc[p].id)
       THEN Goto(p, "closed") /\ UNCHANGED pipelineAlive
       ELSE /\ Goto(p, "accepting")
            /\ pipelineAlive' = [pipelineAlive EXCEPT ![p] = TRUE]
  /\ UNCHANGED <<mutexHolder, current, beatTarget, pipeVars>>

-----------------------------------------------------------------------------
(***************************************************************************)
(* The accept loop and the connection being served.                        *)
(***************************************************************************)

\* Mutant: a second client is accepted while one is served.
AcceptMore(p, c) ==
  /\ proc[p].pc \in {"accepting", "serving"}
  /\ link[c].server = p /\ link[c].state = "pending"
  /\ link' = [link EXCEPT ![c].state = "open"]
  /\ current' = [current EXCEPT ![p] = c]
  /\ Goto(p, "serving")
  /\ UNCHANGED <<toServer, toClient, pipelineAlive, mutexHolder, beatTarget>>

Accept(p, c) ==
  /\ proc[p].pc = "accepting"
  /\ link[c].server = p /\ link[c].state = "pending"
  /\ link' = [link EXCEPT ![c].state = "open"]
  /\ current' = [current EXCEPT ![p] = c]
  /\ Goto(p, "serving")
  /\ UNCHANGED <<toServer, toClient, pipelineAlive, mutexHolder, beatTarget>>

\* The client vanished before the handshake was over.  send_bytes asserts, and
\* the loop goes on, or it raises OSError, or recv_bytes raises EOFError, and
\* neither is caught: which one depends on how far the handshake had come.
AcceptAbandoned(p, c) ==
  /\ proc[p].pc = "accepting"
  /\ link[c].server = p /\ link[c].state = "abandoned"
  /\ CloseServerEnd({c})
  /\ \/ UNCHANGED proc
     \/ Goto(p, "stopping")
  /\ UNCHANGED <<pipelineAlive, mutexHolder, current, beatTarget>>

\* Mutant: the connection is cleared whichever it is.
ClearedAny(p, c) == [current EXCEPT ![p] = None]

ClearedCurrent(p, c) ==
  [current EXCEPT ![p] = IF @ = c THEN None ELSE @]

\* The inner finally of run(): clear the connection, close it.
LeaveConnection(p, c) ==
  /\ current' = ClearedCurrent(p, c)
  /\ CloseServerEnd({c})

ReceiveHello(p, c) ==
  /\ proc[p].pc = "serving" /\ c \in ServedBy(p)
  /\ toServer[c] # << >> /\ Head(toServer[c]) = "hello"
  /\ IF link[c].state = "open"
       THEN /\ toServer' = [toServer EXCEPT ![c] = Tail(@)]
            /\ UNCHANGED <<link, toClient, proc, current>>
       ELSE /\ LeaveConnection(p, c)      \* "ready" cannot be sent: OSError
            /\ Goto(p, "stopping")
  /\ UNCHANGED <<pipelineAlive, mutexHolder, beatTarget>>

\* Mutant: the stop event is set and the next message is waited for.
ReceiveStopLate(p, c) ==
  /\ proc[p].pc = "serving" /\ c \in ServedBy(p)
  /\ toServer[c] # << >> /\ Head(toServer[c]) = "stop"
  /\ toServer' = [toServer EXCEPT ![c] = Tail(@)]
  /\ UNCHANGED <<osVars, current, beatTarget, link, toClient>>

\* Whether "stopping" can be sent or raises, the loop of run() ends.
ReceiveStop(p, c) ==
  /\ proc[p].pc = "serving" /\ c \in ServedBy(p)
  /\ toServer[c] # << >> /\ Head(toServer[c]) = "stop"
  /\ LeaveConnection(p, c)
  /\ Goto(p, "stopping")
  /\ UNCHANGED <<pipelineAlive, mutexHolder, beatTarget>>

\* Mutant: the end of file is swallowed inside the receive loop.
ReceiveEofSwallowed(p, c) ==
  /\ proc[p].pc = "serving" /\ c \in ServedBy(p)
  /\ link[c].state = "orphaned" /\ toServer[c] = << >>
  /\ UNCHANGED <<processVars, pipeVars>>

ReceiveEof(p, c) ==
  /\ proc[p].pc = "serving" /\ c \in ServedBy(p)
  /\ link[c].state = "orphaned" /\ toServer[c] = << >>
  /\ LeaveConnection(p, c)
  /\ Goto(p, "accepting")
  /\ UNCHANGED <<pipelineAlive, mutexHolder, beatTarget>>

-----------------------------------------------------------------------------
(***************************************************************************)
(* The end of run() and of main().                                         *)
(***************************************************************************)

\* Pipeline.stop() asks the pipeline thread to end and waits a second at most.
CloseListener(p) ==
  /\ proc[p].pc = "stopping"
  /\ CloseServerEnd(WaitingOn(p))
  /\ Goto(p, "closed")
  /\ UNCHANGED <<pipelineAlive, mutexHolder, current, beatTarget>>

ReleaseMutex(p) ==
  /\ proc[p].pc = "closed"
  /\ mutexHolder' = ReleasedBy(p)
  /\ Goto(p, "lingering")
  /\ UNCHANGED <<pipelineAlive, current, beatTarget, pipeVars>>

Exit(p) ==
  /\ proc[p].pc = "lingering"
  /\ ~pipelineAlive[p]
  /\ ProcessesGone({p})

StopRequested(p) == proc[p].pc \in {"closed", "lingering"}

\* The generator of receive() returns once it is asked to stop, and raises when
\* the input has no video stream.
PipelineEnds(p) ==
  /\ pipelineAlive[p]
  /\ StopRequested(p) \/ "pipeline" \in Faults
  /\ pipelineAlive' = [pipelineAlive EXCEPT ![p] = FALSE]
  /\ UNCHANGED <<proc, mutexHolder, current, beatTarget, pipeVars>>

-----------------------------------------------------------------------------
(***************************************************************************)
(* The heartbeat thread: it takes the connection under its lock and sends  *)
(* on it after it has let the lock go.                                     *)
(***************************************************************************)

HeartbeatTake(p) ==
  /\ proc[p].pc \in {"accepting", "serving"}
  /\ beatTarget[p] = None
  /\ current[p] # None
  /\ beatTarget' = [beatTarget EXCEPT ![p] = current[p]]
  /\ UNCHANGED <<osVars, current, pipeVars>>

HeartbeatSend(p) ==
  /\ beatTarget[p] # None
  /\ LET c == beatTarget[p] IN
       IF link[c].state = "open"
         THEN /\ toClient' = [toClient EXCEPT ![c] = IF @ < MaxBeats THEN @ + 1 ELSE @]
              /\ UNCHANGED current
         ELSE /\ current' = ClearedCurrent(p, c)
              /\ UNCHANGED toClient
  /\ beatTarget' = [beatTarget EXCEPT ![p] = None]
  /\ UNCHANGED <<osVars, link, toServer>>

-----------------------------------------------------------------------------

\* The process is killed, or fails outside the modelled code.
ProcessCrash(p) ==
  /\ Alive(p) /\ "process" \in Faults
  /\ ProcessesGone({p})

ConnectionStep(p) ==
  \E c \in Conns : \/ Accept(p, c)
                   \/ AcceptAbandoned(p, c)
                   \/ ReceiveHello(p, c)
                   \/ ReceiveStop(p, c)
                   \/ ReceiveEof(p, c)

MainStep(p) ==
  \/ AcquireMutex(p)
  \/ OpenListener(p)
  \/ ConnectionStep(p)
  \/ CloseListener(p)
  \/ ReleaseMutex(p)
  \/ Exit(p)

HeartbeatStep(p) == HeartbeatTake(p) \/ HeartbeatSend(p)

ProcessStep(p) == MainStep(p) \/ HeartbeatStep(p) \/ PipelineEnds(p) \/ ProcessCrash(p)


=============================================================================
