----------------------------- MODULE Supervisor -----------------------------
(***************************************************************************)
(* The conductor (src/conductor/process/supervisor.py,                     *)
(* stream_connection.py): the process table, the registry of connections,  *)
(* the status of every process, and the threads that work on them: the     *)
(* HTTP workers that run startProcess and stopProcess, the constructor that*)
(* reconnects after a restart, one receive thread per connection and the   *)
(* heartbeat monitor.                                                      *)
(*                                                                         *)
(* A step of a thread is what it does between two points where another     *)
(* thread can come in: a lock released, a query of the database or of the  *)
(* operating system, a call that waits.                                    *)
(***************************************************************************)
EXTENDS StreamProcess

CONSTANTS
  Workers,        \* threads that serve HTTP requests
  Boot,           \* the main thread, in the constructor of Supervisor
  Attempts,       \* connection attempts of startProcess, 20 in the code
  Requests        \* the kinds of requests that are made

ASSUME SupervisorAssumption ==
  /\ Requests \subseteq {"start", "stop", "add", "delete"}
  /\ Boot \notin Workers
  /\ Attempts \in Nat \ {0}

Threads == Workers \cup {Boot}

VARIABLES
  up,             \* whether the conductor is down, booting or serving requests
  repository,     \* the identifiers in the process table, which is on disk
  bootIds,        \* processes the constructor has not yet tried to connect to
  thread,         \* the call each thread is in
  children,       \* Supervisor._children
  receiver,       \* the receive thread of each connection
  status,         \* Supervisor._process_statuses, "stopped" where absent
  lastBeat,       \* the age of Supervisor._last_heartbeats, "none" where absent
  expired         \* the monitor's snapshot of expired processes

callVars == <<up, repository, bootIds, thread>>
stateVars == <<children, receiver, status, lastBeat, expired>>
supervisorVars == <<callVars, stateVars>>

\* What most steps of a call leave alone.
keptVars == <<up, repository, bootIds, stateVars>>

ThreadStates == {"idle", "locate", "spawn", "find", "connect", "handshake",
                 "register", "hello", "giveUp", "child", "stop", "locateStop", "kill"}

IdleThread == [pc |-> "idle", id |-> None, pid |-> None, conn |-> None,
               tries |-> 0, targets |-> {}]

SupervisorTypeOK ==
  /\ up \in {"down", "booting", "up"}
  /\ repository \subseteq Ids
  /\ bootIds \subseteq Ids
  /\ thread \in [Threads -> [pc : ThreadStates, id : Ids \cup {None},
                             pid : Pids \cup {None}, conn : Conns \cup {None},
                             tries : 0 .. Attempts, targets : SUBSET Pids]]
  /\ children \in [Ids -> Conns \cup {None}]
  /\ receiver \in [Conns -> {"none", "loop", "beat", "closing", "marking"}]
  /\ status \in [Ids -> {"running", "stopped"}]
  /\ lastBeat \in [Ids -> {"none", "fresh", "expired"}]
  /\ expired \subseteq Ids

\* What a conductor that is not running, or has just started, knows.
NoCalls == [t \in Threads |-> IdleThread]
NoChildren == [i \in Ids |-> None]
NoReceivers == [c \in Conns |-> "none"]
AllStopped == [i \in Ids |-> "stopped"]
NoBeats == [i \in Ids |-> "none"]

SupervisorInit ==
  /\ up = "down"
  /\ repository = Ids
  /\ bootIds = {}
  /\ thread = NoCalls
  /\ children = NoChildren
  /\ receiver = NoReceivers
  /\ status = AllStopped
  /\ lastBeat = NoBeats
  /\ expired = {}

\* StreamConnection.isOpen: open() has succeeded, _notifyClosed() has not run.
IsOpen(c) == c # None /\ receiver[c] \in {"loop", "beat"}

ChildIsOpen(i) == IsOpen(children[i])

\* send() succeeds: the connection is there and the pipe takes the message.
CanSend(c) == IsOpen(c) /\ link[c].state = "open"

FreeConn(c) ==
  /\ link[c].state = "free" /\ receiver[c] = "none"
  /\ \A i \in Ids : children[i] # c
  /\ \A t \in Threads : thread[t].conn # c
  /\ \A p \in Pids : beatTarget[p] # c

\* A pid stays taken while a process handle on it is open.
FreePid(p) == ~Alive(p) /\ \A t \in Threads : thread[t].pid # p

At(t, pc) == thread[t].pc = pc

Proceed(t, pc) == thread' = [thread EXCEPT ![t].pc = pc]

\* The call returns or raises.
Return(t) == thread' = [thread EXCEPT ![t] = IdleThread]

Request(t, i, pc) ==
  /\ up = "up" /\ t \in Workers /\ At(t, "idle")
  /\ i \in repository
  /\ thread' = [thread EXCEPT ![t].id = i, ![t].pc = pc]
  /\ UNCHANGED <<up, repository, bootIds, stateVars, processVars, pipeVars>>


-----------------------------------------------------------------------------
(***************************************************************************)
(* The process table.  updateProcess changes no key.                       *)
(***************************************************************************)

AddProcess(i) ==
  /\ "add" \in Requests
  /\ up = "up" /\ i \notin repository
  /\ repository' = repository \cup {i}
  /\ UNCHANGED <<up, bootIds, thread, stateVars, processVars, pipeVars>>

DeleteProcess(i) ==
  /\ "delete" \in Requests
  /\ up = "up" /\ i \in repository
  /\ repository' = repository \ {i}
  /\ UNCHANGED <<up, bootIds, thread, stateVars, processVars, pipeVars>>

-----------------------------------------------------------------------------
(***************************************************************************)
(* startProcess, and _openChild, which the constructor calls as well.      *)
(***************************************************************************)

StartRequest(t, i) == "start" \in Requests /\ Request(t, i, "locate")

StartLocate(t) ==
  /\ At(t, "locate")
  /\ IF ProcessesOf(thread[t].id) = {} THEN Proceed(t, "spawn") ELSE Return(t)
  /\ UNCHANGED <<keptVars, processVars, pipeVars>>

StartSpawn(t, p) ==
  /\ At(t, "spawn") /\ FreePid(p)
  /\ SpawnProcess(p, thread[t].id)
  /\ thread' = [thread EXCEPT ![t].pid = p, ![t].tries = Attempts, ![t].pc = "find"]
  /\ UNCHANGED keptVars

FindChild(t) ==
  /\ At(t, "find")
  /\ IF ChildIsOpen(thread[t].id) THEN Return(t) ELSE Proceed(t, "connect")
  /\ UNCHANGED <<keptVars, processVars, pipeVars>>

\* A process whose pipe has an instance no client has taken.
Connectable(p, i) ==
  Listening(p) /\ proc[p].id = i /\ Cardinality(WaitingOn(p)) < Backlog(p)

Connect(t, p, c) ==
  /\ At(t, "connect") /\ FreeConn(c)
  /\ Connectable(p, thread[t].id)
  /\ link' = [link EXCEPT ![c] = [id |-> thread[t].id, server |-> p, state |-> "pending"]]
  /\ thread' = [thread EXCEPT ![t].conn = c, ![t].pc = "handshake"]
  /\ UNCHANGED <<keptVars, processVars, toServer, toClient>>

\* Mutant: one attempt more than the loop has.
AttemptFailedLate(t) ==
  thread' = [thread EXCEPT ![t].conn = None, ![t].tries = @ - 1,
                           ![t].pc = IF thread[t].tries = 0 THEN "giveUp" ELSE "connect"]

AttemptFailed(t) ==
  thread' = [thread EXCEPT ![t].conn = None, ![t].tries = @ - 1,
                           ![t].pc = IF thread[t].tries = 1 THEN "giveUp" ELSE "connect"]

\* There is no pipe, or every instance stays taken for 20 seconds.
ConnectFails(t) ==
  /\ At(t, "connect")
  /\ \A p \in Pids : ~Connectable(p, thread[t].id)
  /\ AttemptFailed(t)
  /\ UNCHANGED <<keptVars, processVars, pipeVars>>

\* Client() returns once the server has authenticated it; open() starts the
\* receive thread before _openChild registers the connection.
Handshake(t) ==
  /\ At(t, "handshake")
  /\ link[thread[t].conn].state \in {"open", "broken"}
  /\ receiver' = [receiver EXCEPT ![thread[t].conn] = "loop"]
  /\ Proceed(t, "register")
  /\ UNCHANGED <<up, repository, bootIds, children, status, lastBeat, expired,
                 processVars, pipeVars>>

HandshakeRefused(t) ==
  /\ At(t, "handshake")
  /\ link[thread[t].conn].state = "refused"
  /\ CloseClientEnd({thread[t].conn})
  /\ AttemptFailed(t)
  /\ UNCHANGED <<keptVars, processVars>>

Register(t) ==
  /\ At(t, "register")
  /\ children' = [children EXCEPT ![thread[t].id] = thread[t].conn]
  /\ Proceed(t, "hello")
  /\ UNCHANGED <<up, repository, bootIds, receiver, status, lastBeat, expired,
                 processVars, pipeVars>>

SendHello(t) ==
  /\ At(t, "hello") /\ CanSend(thread[t].conn)
  /\ toServer' = [toServer EXCEPT ![thread[t].conn] = Append(@, "hello")]
  /\ Return(t)
  /\ UNCHANGED <<keptVars, processVars, link, toClient>>

\* The conductor's process ends: its memory goes, the table stays on disk, and
\* the operating system closes its end of every pipe.
ConductorGone ==
  /\ up' = "down"
  /\ UNCHANGED <<repository, processVars>>
  /\ CloseClientEnd(Conns)
  /\ bootIds' = {}
  /\ thread' = NoCalls
  /\ children' = NoChildren
  /\ receiver' = NoReceivers
  /\ status' = AllStopped
  /\ lastBeat' = NoBeats
  /\ expired' = {}

\* send() raises.  In the constructor nothing catches the error.
HelloFails(t) ==
  /\ At(t, "hello") /\ ~CanSend(thread[t].conn)
  /\ IF t = Boot
       THEN ConductorGone
       ELSE Return(t) /\ UNCHANGED <<keptVars, processVars, pipeVars>>

\* _openChild returned False: startProcess terminates the process it spawned,
\* the constructor goes on with the next one.
GiveUp(t) ==
  /\ At(t, "giveUp")
  /\ ProcessesGone({thread[t].pid} \ {None})
  /\ Return(t)
  /\ UNCHANGED keptVars

-----------------------------------------------------------------------------
(***************************************************************************)
(* stopProcess.                                                            *)
(***************************************************************************)

StopRequest(t, i) == "stop" \in Requests /\ Request(t, i, "child")

StopFindChild(t) ==
  /\ At(t, "child")
  /\ IF ChildIsOpen(thread[t].id)
       THEN thread' = [thread EXCEPT ![t].conn = children[thread[t].id], ![t].pc = "stop"]
       ELSE Proceed(t, "locateStop")
  /\ UNCHANGED <<keptVars, processVars, pipeVars>>

SendStop(t) ==
  /\ At(t, "stop")
  /\ IF CanSend(thread[t].conn)
       THEN /\ Len(toServer[thread[t].conn]) < MaxControl
            /\ toServer' = [toServer EXCEPT ![thread[t].conn] = Append(@, "stop")]
       ELSE UNCHANGED toServer
  /\ Return(t)
  /\ UNCHANGED <<keptVars, processVars, link, toClient>>

StopLocate(t) ==
  /\ At(t, "locateStop")
  /\ LET targets == ProcessesOf(thread[t].id) IN
       IF targets = {}
         THEN Return(t)
         ELSE thread' = [thread EXCEPT ![t].targets = targets, ![t].pc = "kill"]
  /\ UNCHANGED <<keptVars, processVars, pipeVars>>

\* taskkill; a pid that is no longer there is skipped.
Kill(t, p) ==
  /\ At(t, "kill") /\ p \in thread[t].targets
  /\ ProcessesGone({p})
  /\ IF thread[t].targets = {p}
       THEN Return(t)
       ELSE thread' = [thread EXCEPT ![t].targets = @ \ {p}]
  /\ UNCHANGED keptVars

\* taskkill refuses, and CalledProcessError leaves the loop.
KillFails(t) ==
  /\ At(t, "kill") /\ "taskkill" \in Faults
  /\ Return(t)
  /\ UNCHANGED <<keptVars, processVars, pipeVars>>

-----------------------------------------------------------------------------
(***************************************************************************)
(* The receive thread of a connection: _receiveLoop, _onMessage,           *)
(* _notifyClosed and _onClose.  The identifier is the one the connection   *)
(* was made for.                                                           *)
(***************************************************************************)

\* Mutant: only the first heartbeat of an identifier is reported.
ReceiveFirstBeat(c) ==
  /\ receiver[c] = "loop" /\ toClient[c] > 0
  /\ toClient' = [toClient EXCEPT ![c] = @ - 1]
  /\ lastBeat' = [lastBeat EXCEPT ![link[c].id] = "fresh"]
  /\ receiver' = [receiver EXCEPT ![c] = IF lastBeat[link[c].id] = "none" THEN "beat" ELSE @]
  /\ UNCHANGED <<callVars, children, status, expired, processVars, link, toServer>>

ReceiveBeat(c) ==
  /\ receiver[c] = "loop" /\ toClient[c] > 0
  /\ toClient' = [toClient EXCEPT ![c] = @ - 1]
  /\ lastBeat' = [lastBeat EXCEPT ![link[c].id] = "fresh"]
  /\ receiver' = [receiver EXCEPT ![c] = "beat"]
  /\ UNCHANGED <<callVars, children, status, expired, processVars, link, toServer>>

BeatRunning(c) ==
  /\ receiver[c] = "beat"
  /\ status' = [status EXCEPT ![link[c].id] = "running"]
  /\ receiver' = [receiver EXCEPT ![c] = "loop"]
  /\ UNCHANGED <<callVars, children, lastBeat, expired, processVars, pipeVars>>

\* End of file; from here on the connection is not open.
NotifyClosed(c) ==
  /\ receiver[c] = "loop" /\ toClient[c] = 0 /\ link[c].state = "broken"
  /\ receiver' = [receiver EXCEPT ![c] = "closing"]
  /\ UNCHANGED <<callVars, children, status, lastBeat, expired, processVars, pipeVars>>

\* Only the connection that closed is popped.
RegistryWithout(c) ==
  [i \in Ids |-> IF i = link[c].id /\ children[i] = c THEN None ELSE children[i]]

\* Mutant: only a registered connection has a status to withdraw.
UnregisterRegistered(c) ==
  /\ receiver[c] = "closing"
  /\ children' = RegistryWithout(c)
  /\ IF children[link[c].id] = c
       THEN /\ receiver' = [receiver EXCEPT ![c] = "marking"]
            /\ UNCHANGED pipeVars
       ELSE /\ receiver' = [receiver EXCEPT ![c] = "none"]
            /\ CloseClientEnd({c})
  /\ UNCHANGED <<callVars, status, lastBeat, expired, processVars>>

Unregister(c) ==
  /\ receiver[c] = "closing"
  /\ children' = RegistryWithout(c)
  /\ receiver' = [receiver EXCEPT ![c] = "marking"]
  /\ UNCHANGED <<callVars, status, lastBeat, expired, processVars, pipeVars>>

\* The thread ends, and with it the last reference to the pipe handle.
MarkStopped(c) ==
  /\ receiver[c] = "marking"
  /\ status' = [status EXCEPT ![link[c].id] = "stopped"]
  /\ receiver' = [receiver EXCEPT ![c] = "none"]
  /\ CloseClientEnd({c})
  /\ UNCHANGED <<callVars, children, lastBeat, expired, processVars>>

ReceiverStep(c) ==
  ReceiveBeat(c) \/ BeatRunning(c) \/ NotifyClosed(c) \/ Unregister(c) \/ MarkStopped(c)

-----------------------------------------------------------------------------
(***************************************************************************)
(* _monitorHeartbeats: it collects the expired processes under the lock    *)
(* and marks them one by one after it has let the lock go.  An entry of    *)
(* _last_heartbeats is never removed.                                      *)
(***************************************************************************)

\* Three seconds without a heartbeat.
Expire(i) ==
  /\ lastBeat[i] = "fresh" /\ "silence" \in Faults
  /\ lastBeat' = [lastBeat EXCEPT ![i] = "expired"]
  /\ UNCHANGED <<callVars, children, receiver, status, expired, processVars, pipeVars>>

MonitorScan ==
  /\ up = "up" /\ expired = {}
  /\ expired' = {i \in Ids : lastBeat[i] = "expired"}
  /\ expired' # {}
  /\ UNCHANGED <<callVars, children, receiver, status, lastBeat, processVars, pipeVars>>

MonitorMark(i) ==
  /\ i \in expired
  /\ expired' = expired \ {i}
  /\ status' = [status EXCEPT ![i] = "stopped"]
  /\ UNCHANGED <<callVars, children, receiver, lastBeat, processVars, pipeVars>>

-----------------------------------------------------------------------------
(***************************************************************************)
(* The conductor's own life.                                               *)
(***************************************************************************)

ConductorStart ==
  /\ up = "down"
  /\ up' = "booting"
  /\ bootIds' = repository
  /\ UNCHANGED <<repository, thread, stateVars, processVars, pipeVars>>

\* One attempt for each process of the table.
BootNext(i) ==
  /\ up = "booting" /\ At(Boot, "idle")
  /\ i \in bootIds
  /\ bootIds' = bootIds \ {i}
  /\ thread' = [thread EXCEPT ![Boot].id = i, ![Boot].tries = 1, ![Boot].pc = "find"]
  /\ UNCHANGED <<up, repository, stateVars, processVars, pipeVars>>

BootDone ==
  /\ up = "booting" /\ At(Boot, "idle") /\ bootIds = {}
  /\ up' = "up"
  /\ UNCHANGED <<repository, bootIds, thread, stateVars, processVars, pipeVars>>

ConductorCrash ==
  /\ up # "down" /\ "conductor" \in Faults
  /\ ConductorGone

-----------------------------------------------------------------------------

CallStep(t) ==
  \/ StartLocate(t)
  \/ \E p \in Pids : StartSpawn(t, p)
  \/ FindChild(t)
  \/ \E p \in Pids, c \in Conns : Connect(t, p, c)
  \/ ConnectFails(t)
  \/ Handshake(t)
  \/ HandshakeRefused(t)
  \/ Register(t)
  \/ SendHello(t)
  \/ HelloFails(t)
  \/ GiveUp(t)
  \/ StopFindChild(t)
  \/ SendStop(t)
  \/ StopLocate(t)
  \/ \E p \in Pids : Kill(t, p)
  \/ KillFails(t)

OperatorRequest ==
  \E i \in Ids : \/ AddProcess(i)
                 \/ DeleteProcess(i)
                 \/ \E t \in Workers : StartRequest(t, i) \/ StopRequest(t, i)

MonitorStep == MonitorScan \/ \E i \in Ids : MonitorMark(i)

BootStep == BootDone \/ \E i \in Ids : BootNext(i)

=============================================================================
