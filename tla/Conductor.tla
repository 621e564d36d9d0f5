------------------------------ MODULE Conductor ------------------------------
(***************************************************************************)
(* The control plane as a whole: one conductor and the stream processes it *)
(* starts, stops and reconnects to, composed over the control pipe.  Every *)
(* process and the conductor may end at any point.                         *)
(***************************************************************************)
EXTENDS Supervisor

vars == <<supervisorVars, processVars, pipeVars>>

Init == PipeInit /\ ProcessInit /\ SupervisorInit

StreamProcessStep(p) == ProcessStep(p) /\ UNCHANGED supervisorVars

Next ==
  \/ \E p \in Pids : StreamProcessStep(p)
  \/ OperatorRequest
  \/ \E t \in Threads : CallStep(t)
  \/ \E c \in Conns : ReceiverStep(c)
  \/ \E i \in Ids : Expire(i)
  \/ MonitorStep
  \/ ConductorStart
  \/ BootStep
  \/ ConductorCrash

Spec == Init /\ [][Next]_vars

(***************************************************************************)
(* Every thread that can take a step takes one.  Requests, crashes, the    *)
(* restart of the conductor and late heartbeats are not owed to anyone.    *)
(***************************************************************************)
FairSpec ==
  /\ Spec
  /\ \A p \in Pids :
       /\ WF_vars(MainStep(p) /\ UNCHANGED supervisorVars)
       /\ WF_vars(HeartbeatStep(p) /\ UNCHANGED supervisorVars)
       /\ WF_vars(PipelineEnds(p) /\ StopRequested(p) /\ UNCHANGED supervisorVars)
  /\ \A t \in Threads : WF_vars(CallStep(t))
  /\ \A c \in Conns : WF_vars(ReceiverStep(c))
  /\ WF_vars(MonitorStep)
  /\ WF_vars(BootStep)

TypeOK == PipeTypeOK /\ ProcessTypeOK /\ SupervisorTypeOK

-----------------------------------------------------------------------------
(***************************************************************************)
(* Safety.                                                                 *)
(***************************************************************************)

GuardedOf(i) == {p \in Pids : proc[p].id = i /\ Guarded(p)}

\* acquire_process_mutex (guard.py:22): no two processes of one identifier are
\* past the guard, whoever spawned them and however their predecessors ended.
OneGuarded == \A i \in Ids : \A p, q \in GuardedOf(i) : p = q

\* The same, as a refinement: the system implements SingleInstance.
Single == INSTANCE SingleInstance WITH running <- [i \in Ids |-> GuardedOf(i)]

ImplementsSingleInstance == Single!Spec

\* The accept loop of run() (cli.py:99) and the guard together: the conductor
\* never has two established connections to one identifier, although it may
\* hold several connection objects for it, some closing and some waiting.
OneConversation ==
  \A c, d \in Conns :
    (link[c].state = "open" /\ link[d].state = "open" /\ link[c].id = link[d].id)
      => c = d

\* _clearConnection (cli.py:140): while a process serves an established
\* connection, its heartbeat and log threads see that connection, even when a
\* send on an older one fails late.
ServedIsCurrent ==
  \A p \in Pids : \A c \in ServedBy(p) :
    (proc[p].pc = "serving" /\ link[c].state = "open") => current[p] = c

\* _receiveLoop keeps its end of the pipe until _onClose has returned, and run()
\* asks for the first instance of the pipe (cli.py:86): when the end of a connection
\* is handled, late as it may be, no later connection to that identifier is there
\* for _onClose to unregister or to show as stopped.
CloseComesFirst ==
  \A c, d \in Conns :
    (/\ receiver[c] \in {"closing", "marking"}
     /\ c # d /\ link[c].id = link[d].id)
      => link[d].state # "open"

-----------------------------------------------------------------------------
(***************************************************************************)
(* Liveness, under FairSpec.                                               *)
(***************************************************************************)

\* _onClose, _onMessage and _monitorHeartbeats race to write the status; once
\* the last process of an identifier is gone it settles on "stopped".
StatusSettles ==
  \A i \in Ids : <>[](ProcessesOf(i) = {}) => <>[](status[i] = "stopped")

\* While a connection stays established, no late close and no expired snapshot
\* can keep its process shown as stopped.
ConnectedIsShown ==
  \A i \in Ids :
    <>[](\E c \in Conns : link[c].id = i /\ link[c].state = "open" /\ IsOpen(c))
      => []<>(status[i] = "running")

\* stopProcess answers once the message is sent: the process it was sent to
\* ends, whatever happens to the conductor in the meantime.
StopTakesEffect ==
  \A p \in Pids, c \in Conns :
    (/\ link[c].server = p /\ link[c].state = "open"
     /\ \E n \in 1 .. Len(toServer[c]) : toServer[c][n] = "stop")
      ~> ~Alive(p)

\* A process whose conductor is gone gives the connection up, so that the next
\* conductor can be served.
OrphanReleased ==
  \A c \in Conns : (link[c].state = "orphaned") ~> (link[c].state # "orphaned")

-----------------------------------------------------------------------------
(***************************************************************************)
(* What the documents say and the code does not do.                        *)
(***************************************************************************)

\* 015, exceptions: without anyone to receive its messages a stream process
\* goes on.  Only a stop request ends its loop.
OnlyStopEndsTheLoop ==
  [][\A p \in Pids :
       (proc[p].pc \in {"accepting", "serving"} /\ proc'[p].pc = "stopping")
         => \E c \in ServedBy(p) : toServer[c] # << >> /\ Head(toServer[c]) = "stop"]_vars

\* FR-002: no two processes of one identifier run, here their video pipelines.
NoConcurrentRun ==
  \A p, q \in Pids :
    (pipelineAlive[p] /\ pipelineAlive[q] /\ proc[p].id = proc[q].id) => p = q

\* supervisor.py:288: a start that cannot connect ends with a timeout.
StartReturns == \A t \in Workers : At(t, "handshake") ~> ~At(t, "handshake")

=============================================================================
