--------------------------- MODULE ConductorProofs ---------------------------
(***************************************************************************)
(* Theorems about Conductor, for every set of identifiers, pids,           *)
(* connections and workers and every combination of faults: its type       *)
(* invariant, and that the guard keeps the promise of SingleInstance.      *)
(***************************************************************************)
EXTENDS Conductor, TLAPS

-----------------------------------------------------------------------------
(***************************************************************************)
(* Type correctness.  A failed attempt counts down, so the type of tries   *)
(* needs that an attempt is only made while there is one left; and a call  *)
(* copies a connection from the registry, so that it has to be about an    *)
(* identifier the registry knows.                                          *)
(***************************************************************************)

CallsOK ==
  \A t \in Threads :
    /\ thread[t].pc \in {"find", "connect", "handshake"} => thread[t].tries >= 1
    /\ thread[t].pc # "idle" => thread[t].id \in Ids

TypeInv == TypeOK /\ CallsOK

\* The ends of a link are closed by operations that keep the type of the pipe.
LEMMA CloseServerEndType ==
  ASSUME PipeTypeOK, NEW cs, CloseServerEnd(cs)
  PROVE  PipeTypeOK'
<1>1. \A c \in Conns : ServerClosed(link[c]) \in
        [id : Ids \cup {None}, server : Pids \cup {None}, state : LinkStates]
  BY DEF PipeTypeOK, ServerClosed, LinkStates, FreeLink
<1>2. link' \in [Conns -> [id : Ids \cup {None}, server : Pids \cup {None},
                           state : LinkStates]]
  BY <1>1 DEF PipeTypeOK, CloseServerEnd
<1>3. toServer' \in [Conns -> Seq({"hello", "stop"})]
  BY DEF PipeTypeOK, CloseServerEnd
<1> QED BY <1>2, <1>3 DEF PipeTypeOK, CloseServerEnd

LEMMA CloseClientEndType ==
  ASSUME PipeTypeOK, NEW cs, CloseClientEnd(cs)
  PROVE  PipeTypeOK'
<1>1. \A c \in Conns : ClientClosed(link[c]) \in
        [id : Ids \cup {None}, server : Pids \cup {None}, state : LinkStates]
  BY DEF PipeTypeOK, ClientClosed, LinkStates, FreeLink
<1>2. link' \in [Conns -> [id : Ids \cup {None}, server : Pids \cup {None},
                           state : LinkStates]]
  BY <1>1 DEF PipeTypeOK, CloseClientEnd
<1>3. toClient' \in [Conns -> 0 .. MaxBeats]
  BY ConstantsAssumption DEF PipeTypeOK, CloseClientEnd
<1> QED BY <1>2, <1>3 DEF PipeTypeOK, CloseClientEnd

\* The end of processes keeps the type of the operating system's state.
LEMMA ProcessesGoneType ==
  ASSUME PipeTypeOK, ProcessTypeOK, NEW ps, ProcessesGone(ps)
  PROVE  PipeTypeOK' /\ ProcessTypeOK'
<1>1. PipeTypeOK'
  BY CloseServerEndType DEF ProcessesGone
<1>2. proc' \in [Pids -> [id : Ids \cup {None}, pc : MainStates]]
  BY DEF ProcessesGone, ProcessTypeOK, NoProcess, MainStates
<1>3. pipelineAlive' \in [Pids -> BOOLEAN]
  BY DEF ProcessesGone, ProcessTypeOK
<1>4. mutexHolder' \in [Ids -> Pids \cup {None}]
  BY DEF ProcessesGone, ProcessTypeOK
<1>5. current' \in [Pids -> Conns \cup {None}] /\ beatTarget' \in [Pids -> Conns \cup {None}]
  BY DEF ProcessesGone, ProcessTypeOK
<1> QED BY <1>1, <1>2, <1>3, <1>4, <1>5 DEF ProcessTypeOK

\* A step of a process that serves a connection.
LEMMA ConnectionStepType ==
  ASSUME PipeTypeOK, ProcessTypeOK, NEW p \in Pids, ConnectionStep(p)
  PROVE  PipeTypeOK' /\ ProcessTypeOK'
<1> PICK c \in Conns : \/ Accept(p, c)
                       \/ AcceptAbandoned(p, c)
                       \/ ReceiveHello(p, c)
                       \/ ReceiveStop(p, c)
                       \/ ReceiveEof(p, c)
  BY DEF ConnectionStep
<1> USE DEF ProcessTypeOK
<1>1. CASE Accept(p, c)
  <2>1. link' \in [Conns -> [id : Ids \cup {None}, server : Pids \cup {None},
                             state : LinkStates]]
    BY <1>1 DEF Accept, PipeTypeOK, LinkStates
  <2>2. PipeTypeOK'
    BY <1>1, <2>1 DEF Accept, PipeTypeOK
  <2>3. proc' \in [Pids -> [id : Ids \cup {None}, pc : MainStates]]
    BY <1>1 DEF Accept, Goto, MainStates
  <2> QED BY <1>1, <2>2, <2>3 DEF Accept
<1>2. CASE AcceptAbandoned(p, c)
  <2>1. PipeTypeOK'
    BY <1>2, CloseServerEndType DEF AcceptAbandoned
  <2> QED BY <1>2, <2>1 DEF AcceptAbandoned, Goto, MainStates
<1>3. CASE ReceiveHello(p, c)
  <2>1. CASE link[c].state = "open"
    <3>1. Tail(toServer[c]) \in Seq({"hello", "stop"})
      BY <1>3 DEF ReceiveHello, PipeTypeOK
    <3>2. toServer' \in [Conns -> Seq({"hello", "stop"})]
      BY <1>3, <2>1, <3>1 DEF ReceiveHello, PipeTypeOK
    <3> QED BY <1>3, <2>1, <3>2 DEF ReceiveHello, PipeTypeOK
  <2>2. CASE link[c].state # "open"
    <3>1. PipeTypeOK'
      BY <1>3, <2>2, CloseServerEndType DEF ReceiveHello, LeaveConnection
    <3>2. proc' \in [Pids -> [id : Ids \cup {None}, pc : MainStates]]
      BY <1>3, <2>2 DEF ReceiveHello, Goto, MainStates
    <3>3. current' \in [Pids -> Conns \cup {None}]
      BY <1>3, <2>2 DEF ReceiveHello, LeaveConnection, ClearedCurrent
    <3> QED BY <1>3, <3>1, <3>2, <3>3 DEF ReceiveHello
  <2> QED BY <2>1, <2>2
<1>4. CASE ReceiveStop(p, c)
  <2>1. PipeTypeOK'
    BY <1>4, CloseServerEndType DEF ReceiveStop, LeaveConnection
  <2> QED BY <1>4, <2>1 DEF ReceiveStop, LeaveConnection, ClearedCurrent, Goto, MainStates
<1>5. CASE ReceiveEof(p, c)
  <2>1. PipeTypeOK'
    BY <1>5, CloseServerEndType DEF ReceiveEof, LeaveConnection
  <2> QED BY <1>5, <2>1 DEF ReceiveEof, LeaveConnection, ClearedCurrent, Goto, MainStates
<1> QED BY <1>1, <1>2, <1>3, <1>4, <1>5

\* Any step of a process.
LEMMA ProcessStepType ==
  ASSUME PipeTypeOK, ProcessTypeOK, NEW p \in Pids, ProcessStep(p)
  PROVE  PipeTypeOK' /\ ProcessTypeOK'
<1> USE DEF ProcessTypeOK
<1>1. CASE AcquireMutex(p)
  <2>1. CASE DuplicateFound(proc[p].id)
    BY <1>1, <2>1, ProcessesGoneType DEF AcquireMutex
  <2>2. CASE ~DuplicateFound(proc[p].id)
    <3>1. proc' \in [Pids -> [id : Ids \cup {None}, pc : MainStates]]
      BY <1>1, <2>2 DEF AcquireMutex, Goto, MainStates
    <3>2. mutexHolder' \in [Ids -> Pids \cup {None}]
      BY <1>1, <2>2 DEF AcquireMutex
    <3> QED BY <1>1, <2>2, <3>1, <3>2 DEF AcquireMutex, PipeTypeOK, pipeVars
  <2> QED BY <2>1, <2>2
<1>2. CASE OpenListener(p)
  <2>1. proc' \in [Pids -> [id : Ids \cup {None}, pc : MainStates]]
    BY <1>2 DEF OpenListener, Goto, MainStates
  <2> QED BY <1>2, <2>1 DEF OpenListener, PipeTypeOK, pipeVars
<1>3. CASE ConnectionStep(p)
  BY <1>3, ConnectionStepType
<1>4. CASE CloseListener(p)
  <2>1. PipeTypeOK'
    BY <1>4, CloseServerEndType DEF CloseListener
  <2> QED BY <1>4, <2>1 DEF CloseListener, Goto, MainStates
<1>5. CASE ReleaseMutex(p)
  BY <1>5 DEF ReleaseMutex, ReleasedBy, Goto, MainStates, PipeTypeOK, pipeVars
<1>6. CASE Exit(p)
  BY <1>6, ProcessesGoneType DEF Exit
<1>7. CASE HeartbeatTake(p)
  BY <1>7 DEF HeartbeatTake, osVars, PipeTypeOK, pipeVars
<1>8. CASE HeartbeatSend(p)
  <2>1. toClient' \in [Conns -> 0 .. MaxBeats]
    <3>1. beatTarget[p] \in Conns
      BY <1>8 DEF HeartbeatSend
    <3>2. toClient[beatTarget[p]] \in 0 .. MaxBeats /\ MaxBeats \in Nat
      BY <3>1, ConstantsAssumption DEF PipeTypeOK
    <3>3. CASE link[beatTarget[p]].state = "open"
      <4>1. toClient' = [toClient EXCEPT ![beatTarget[p]] =
                           IF @ < MaxBeats THEN @ + 1 ELSE @]
        BY <1>8, <3>3 DEF HeartbeatSend
      <4> QED BY <3>1, <3>2, <4>1 DEF PipeTypeOK
    <3>4. CASE link[beatTarget[p]].state # "open"
      BY <1>8, <3>4 DEF HeartbeatSend, PipeTypeOK
    <3> QED BY <3>3, <3>4
  <2>2. current' \in [Pids -> Conns \cup {None}]
    BY <1>8 DEF HeartbeatSend, ClearedCurrent
  <2> QED BY <1>8, <2>1, <2>2 DEF HeartbeatSend, osVars, PipeTypeOK
<1>9. CASE PipelineEnds(p)
  BY <1>9 DEF PipelineEnds, PipeTypeOK, pipeVars
<1>10. CASE ProcessCrash(p)
  BY <1>10, ProcessesGoneType DEF ProcessCrash
<1> QED BY <1>1, <1>2, <1>3, <1>4, <1>5, <1>6, <1>7, <1>8, <1>9, <1>10
        DEF ProcessStep, MainStep, HeartbeatStep

\* A step of a call of the supervisor.
LEMMA CallStepType ==
  ASSUME TypeInv, NEW t \in Threads, CallStep(t)
  PROVE  TypeInv'
<1> DEFINE ThreadType == [pc : ThreadStates, id : Ids \cup {None},
                          pid : Pids \cup {None}, conn : Conns \cup {None},
                          tries : 0 .. Attempts, targets : SUBSET Pids]
<1> USE DEF TypeInv, TypeOK
<1>0. /\ Attempts \in Nat \ {0}
      /\ thread \in [Threads -> ThreadType]
      /\ thread[t] \in ThreadType
  BY SupervisorAssumption DEF SupervisorTypeOK
<1>1. ASSUME NEW pc \in ThreadStates \ {"find", "connect", "handshake"}, Proceed(t, pc),
             ~At(t, "idle")
      PROVE  thread' \in [Threads -> ThreadType] /\ CallsOK'
  BY <1>0, <1>1 DEF Proceed, At, CallsOK
<1>2. ASSUME Return(t)
      PROVE  thread' \in [Threads -> ThreadType] /\ CallsOK'
  <2>1. IdleThread \in ThreadType
    BY <1>0 DEF IdleThread, ThreadStates
  <2> QED BY <1>0, <1>2, <2>1 DEF Return, CallsOK, IdleThread
<1>3. ASSUME At(t, "connect") \/ At(t, "handshake"), AttemptFailed(t)
      PROVE  thread' \in [Threads -> ThreadType] /\ CallsOK'
  <2>1. thread[t].tries \in 1 .. Attempts
    BY <1>0, <1>3 DEF At, CallsOK
  <2> QED BY <1>0, <1>3, <2>1 DEF AttemptFailed, CallsOK, ThreadStates
<1>4. ASSUME UNCHANGED <<keptVars, processVars, pipeVars>>,
             thread' \in [Threads -> ThreadType], CallsOK'
      PROVE  TypeInv'
  BY <1>4 DEF keptVars, stateVars, processVars, osVars, pipeVars, SupervisorTypeOK,
              ProcessTypeOK, PipeTypeOK
<1>5. ASSUME UNCHANGED keptVars, PipeTypeOK', ProcessTypeOK',
             thread' \in [Threads -> ThreadType], CallsOK'
      PROVE  TypeInv'
  BY <1>5 DEF keptVars, stateVars, SupervisorTypeOK
<1>6. ASSUME UNCHANGED processVars PROVE ProcessTypeOK'
  BY <1>6 DEF processVars, osVars, ProcessTypeOK
<1>7. ASSUME UNCHANGED pipeVars PROVE PipeTypeOK'
  BY <1>7 DEF pipeVars, PipeTypeOK
<1>11. CASE StartLocate(t)
  BY <1>11, <1>1, <1>2, <1>4 DEF StartLocate, ThreadStates, At
<1>12. CASE \E p \in Pids : StartSpawn(t, p)
  <2> PICK p \in Pids : StartSpawn(t, p)
    BY <1>12
  <2>1. proc' \in [Pids -> [id : Ids \cup {None}, pc : MainStates]]
    BY <1>0 DEF StartSpawn, SpawnProcess, ProcessTypeOK, MainStates
  <2>2. thread' \in [Threads -> ThreadType] /\ CallsOK'
    BY <1>0 DEF StartSpawn, At, ThreadStates, CallsOK
  <2>3. ProcessTypeOK'
    BY <2>1 DEF StartSpawn, SpawnProcess, ProcessTypeOK
  <2> QED BY <2>2, <2>3, <1>5, <1>7 DEF StartSpawn, SpawnProcess
<1>13. CASE FindChild(t)
  <2>1. CASE ChildIsOpen(thread[t].id)
    BY <1>13, <2>1, <1>2, <1>4 DEF FindChild
  <2>2. CASE ~ChildIsOpen(thread[t].id)
    <3>1. thread' = [thread EXCEPT ![t].pc = "connect"] /\ thread[t].pc = "find"
      BY <1>13, <2>2 DEF FindChild, Proceed, At
    <3>2. thread' \in [Threads -> ThreadType] /\ CallsOK'
      BY <3>1, <1>0 DEF CallsOK, ThreadStates
    <3> QED BY <1>13, <3>2, <1>4 DEF FindChild
  <2> QED BY <2>1, <2>2
<1>14. CASE \E p \in Pids, c \in Conns : Connect(t, p, c)
  <2> PICK p \in Pids, c \in Conns : Connect(t, p, c)
    BY <1>14
  <2>1. link' \in [Conns -> [id : Ids \cup {None}, server : Pids \cup {None},
                             state : LinkStates]]
    BY <1>0 DEF Connect, PipeTypeOK, LinkStates
  <2>2. thread' \in [Threads -> ThreadType] /\ CallsOK'
    BY <1>0 DEF Connect, At, ThreadStates, CallsOK
  <2>3. PipeTypeOK'
    BY <2>1 DEF Connect, PipeTypeOK
  <2> QED BY <2>2, <2>3, <1>5, <1>6 DEF Connect
<1>15. CASE ConnectFails(t)
  BY <1>15, <1>3, <1>4 DEF ConnectFails
<1>16. CASE Handshake(t)
  <2>1. receiver' \in [Conns -> {"none", "loop", "beat", "closing", "marking"}]
    BY <1>16 DEF Handshake, SupervisorTypeOK
  <2>2. thread' \in [Threads -> ThreadType] /\ CallsOK'
    BY <1>16, <1>1 DEF Handshake, ThreadStates, At
  <2> QED BY <1>16, <2>1, <2>2, <1>6, <1>7 DEF Handshake, SupervisorTypeOK
<1>17. CASE HandshakeRefused(t)
  <2>1. PipeTypeOK'
    BY <1>17, CloseClientEndType DEF HandshakeRefused
  <2> QED BY <1>17, <2>1, <1>3, <1>5, <1>6 DEF HandshakeRefused
<1>18. CASE Register(t)
  <2>1. children' \in [Ids -> Conns \cup {None}]
    BY <1>18, <1>0 DEF Register, SupervisorTypeOK
  <2>2. thread' \in [Threads -> ThreadType] /\ CallsOK'
    BY <1>18, <1>1 DEF Register, ThreadStates, At
  <2> QED BY <1>18, <2>1, <2>2, <1>6, <1>7 DEF Register, SupervisorTypeOK
<1>19. ASSUME NEW m \in {"hello", "stop"}, NEW c,
              toServer' = [toServer EXCEPT ![c] = Append(@, m)],
              UNCHANGED <<link, toClient>>
       PROVE  PipeTypeOK'
  <2>1. \A d \in Conns : Append(toServer[d], m) \in Seq({"hello", "stop"})
    BY DEF PipeTypeOK
  <2>2. toServer' \in [Conns -> Seq({"hello", "stop"})]
    BY <1>19, <2>1 DEF PipeTypeOK
  <2> QED BY <1>19, <2>2 DEF PipeTypeOK
<1>20. CASE SendHello(t)
  BY <1>20, <1>2, <1>5, <1>6, <1>19 DEF SendHello
<1>21. CASE HelloFails(t)
  <2>1. CASE t = Boot
    <3>1. PipeTypeOK'
      BY <1>21, <2>1, CloseClientEndType DEF HelloFails, ConductorGone
    <3>2. ProcessTypeOK'
      BY <1>21, <2>1, <1>6 DEF HelloFails, ConductorGone
    <3>3. IdleThread \in ThreadType
      BY <1>0 DEF IdleThread, ThreadStates
    <3>4. SupervisorTypeOK' /\ CallsOK'
      BY <1>21, <2>1, <3>3
         DEF HelloFails, ConductorGone, SupervisorTypeOK, CallsOK, NoCalls, NoChildren,
             NoReceivers, AllStopped, NoBeats, IdleThread
    <3> QED BY <3>1, <3>2, <3>4
  <2>2. CASE t # Boot
    BY <1>21, <2>2, <1>2, <1>4 DEF HelloFails
  <2> QED BY <2>1, <2>2
<1>22. CASE GiveUp(t)
  <2>1. PipeTypeOK' /\ ProcessTypeOK'
    BY <1>22, ProcessesGoneType DEF GiveUp
  <2> QED BY <1>22, <2>1, <1>2, <1>5 DEF GiveUp
<1>23. CASE StopFindChild(t)
  <2>1. CASE ChildIsOpen(thread[t].id)
    <3>1. thread[t].id \in Ids /\ thread[t].pc = "child"
      BY <1>23 DEF StopFindChild, At, CallsOK
    <3>2. children[thread[t].id] \in Conns \cup {None}
      BY <3>1 DEF SupervisorTypeOK
    <3>3. thread' = [thread EXCEPT ![t].conn = children[thread[t].id], ![t].pc = "stop"]
      BY <1>23, <2>1 DEF StopFindChild
    <3>4. thread' \in [Threads -> ThreadType] /\ CallsOK'
      BY <3>1, <3>2, <3>3, <1>0 DEF CallsOK, ThreadStates
    <3> QED BY <1>23, <3>4, <1>4 DEF StopFindChild
  <2>2. CASE ~ChildIsOpen(thread[t].id)
    BY <1>23, <2>2, <1>1, <1>4 DEF StopFindChild, ThreadStates, At
  <2> QED BY <2>1, <2>2
<1>24. CASE SendStop(t)
  <2>1. PipeTypeOK'
    BY <1>24, <1>19 DEF SendStop, PipeTypeOK
  <2> QED BY <1>24, <2>1, <1>2, <1>5, <1>6 DEF SendStop
<1>25. CASE StopLocate(t)
  <2>1. ProcessesOf(thread[t].id) \subseteq Pids
    BY DEF ProcessesOf
  <2>2. CASE ProcessesOf(thread[t].id) = {}
    BY <1>25, <2>2, <1>2, <1>4 DEF StopLocate
  <2>3. CASE ProcessesOf(thread[t].id) # {}
    BY <1>25, <2>1, <2>3, <1>0, <1>4 DEF StopLocate, ThreadStates, CallsOK
  <2> QED BY <2>2, <2>3
<1>26. CASE \E p \in Pids : Kill(t, p)
  <2> PICK p \in Pids : Kill(t, p)
    BY <1>26
  <2>1. PipeTypeOK' /\ ProcessTypeOK'
    BY ProcessesGoneType DEF Kill
  <2>2. CASE thread[t].targets = {p}
    BY <2>1, <2>2, <1>2, <1>5 DEF Kill
  <2>3. CASE thread[t].targets # {p}
    BY <2>1, <2>3, <1>0, <1>5 DEF Kill, CallsOK
  <2> QED BY <2>2, <2>3
<1>27. CASE KillFails(t)
  BY <1>27, <1>2, <1>4 DEF KillFails
<1> QED BY <1>11, <1>12, <1>13, <1>14, <1>15, <1>16, <1>17, <1>18, <1>20, <1>21,
           <1>22, <1>23, <1>24, <1>25, <1>26, <1>27 DEF CallStep

\* A step of a receive thread or of the monitor, or the passing of time.
LEMMA StateStepType ==
  ASSUME TypeInv,
         \/ \E c \in Conns : ReceiverStep(c)
         \/ \E i \in Ids : Expire(i)
         \/ MonitorStep
  PROVE  TypeInv'
<1> USE DEF TypeInv, TypeOK
<1>1. ASSUME UNCHANGED <<callVars, processVars>>, PipeTypeOK',
             children' \in [Ids -> Conns \cup {None}],
             receiver' \in [Conns -> {"none", "loop", "beat", "closing", "marking"}],
             status' \in [Ids -> {"running", "stopped"}],
             lastBeat' \in [Ids -> {"none", "fresh", "expired"}],
             expired' \subseteq Ids
      PROVE  TypeInv'
  BY <1>1 DEF callVars, processVars, osVars, ProcessTypeOK, SupervisorTypeOK, CallsOK
<1>2. ASSUME UNCHANGED pipeVars PROVE PipeTypeOK'
  BY <1>2 DEF pipeVars, PipeTypeOK
<1>3. CASE \E c \in Conns : ReceiverStep(c)
  <2> PICK c \in Conns : ReceiverStep(c)
    BY <1>3
  <2>1. CASE ReceiveBeat(c)
    <3>1. toClient[c] \in 0 .. MaxBeats /\ toClient[c] > 0 /\ MaxBeats \in Nat
      BY <2>1, ConstantsAssumption DEF ReceiveBeat, PipeTypeOK
    <3>2. toClient' \in [Conns -> 0 .. MaxBeats]
      BY <2>1, <3>1 DEF ReceiveBeat, PipeTypeOK
    <3>3. PipeTypeOK'
      BY <2>1, <3>2 DEF ReceiveBeat, PipeTypeOK
    <3> QED BY <2>1, <3>3, <1>1 DEF ReceiveBeat, SupervisorTypeOK
  <2>2. CASE BeatRunning(c)
    BY <2>2, <1>1, <1>2 DEF BeatRunning, SupervisorTypeOK
  <2>3. CASE NotifyClosed(c)
    BY <2>3, <1>1, <1>2 DEF NotifyClosed, SupervisorTypeOK
  <2>4. CASE Unregister(c)
    BY <2>4, <1>1, <1>2 DEF Unregister, RegistryWithout, SupervisorTypeOK
  <2>5. CASE MarkStopped(c)
    BY <2>5, <1>1, CloseClientEndType DEF MarkStopped, SupervisorTypeOK
  <2> QED BY <2>1, <2>2, <2>3, <2>4, <2>5 DEF ReceiverStep
<1>4. CASE \E i \in Ids : Expire(i)
  BY <1>4, <1>1, <1>2 DEF Expire, SupervisorTypeOK
<1>5. CASE MonitorScan
  BY <1>5, <1>1, <1>2 DEF MonitorScan, SupervisorTypeOK
<1>6. CASE \E i \in Ids : MonitorMark(i)
  BY <1>6, <1>1, <1>2 DEF MonitorMark, SupervisorTypeOK
<1> QED BY <1>3, <1>4, <1>5, <1>6 DEF MonitorStep

\* A request arrives, or the conductor starts, boots or goes down.
LEMMA LifeStepType ==
  ASSUME TypeInv, OperatorRequest \/ ConductorStart \/ BootStep \/ ConductorCrash
  PROVE  TypeInv'
<1> DEFINE ThreadType == [pc : ThreadStates, id : Ids \cup {None},
                          pid : Pids \cup {None}, conn : Conns \cup {None},
                          tries : 0 .. Attempts, targets : SUBSET Pids]
<1> USE DEF TypeInv, TypeOK
<1>0. /\ Attempts \in Nat \ {0}
      /\ thread \in [Threads -> ThreadType]
  BY SupervisorAssumption DEF SupervisorTypeOK
<1>1. ASSUME UNCHANGED <<stateVars, processVars, pipeVars>>,
             up' \in {"down", "booting", "up"}, repository' \subseteq Ids,
             bootIds' \subseteq Ids, thread' \in [Threads -> ThreadType], CallsOK'
      PROVE  TypeInv'
  BY <1>1 DEF stateVars, processVars, osVars, pipeVars, SupervisorTypeOK, ProcessTypeOK,
              PipeTypeOK
<1>2. CASE OperatorRequest
  <2> PICK i \in Ids : \/ AddProcess(i)
                       \/ DeleteProcess(i)
                       \/ \E t \in Workers : StartRequest(t, i) \/ StopRequest(t, i)
    BY <1>2 DEF OperatorRequest
  <2>1. CASE AddProcess(i) \/ DeleteProcess(i)
    BY <2>1, <1>0, <1>1 DEF AddProcess, DeleteProcess, SupervisorTypeOK, CallsOK
  <2>2. ASSUME NEW t \in Workers, NEW pc \in {"locate", "child"}, Request(t, i, pc)
        PROVE  TypeInv'
    <3>1. t \in Threads
      BY DEF Threads
    <3>2. thread' = [thread EXCEPT ![t].id = i, ![t].pc = pc]
      BY <2>2 DEF Request
    <3>3. thread' \in [Threads -> ThreadType] /\ CallsOK'
      <4>1. thread[t] \in ThreadType
        BY <3>1, <1>0
      <4> QED BY <3>1, <3>2, <4>1, <1>0 DEF CallsOK, ThreadStates
    <3> QED BY <2>2, <3>3, <1>1 DEF Request, SupervisorTypeOK
  <2> QED BY <2>1, <2>2 DEF StartRequest, StopRequest
<1>3. CASE ConductorStart
  BY <1>3, <1>0, <1>1 DEF ConductorStart, SupervisorTypeOK, CallsOK
<1>4. CASE \E i \in Ids : BootNext(i)
  <2> PICK i \in Ids : BootNext(i)
    BY <1>4
  <2>1. Boot \in Threads
    BY DEF Threads
  <2>2. thread' = [thread EXCEPT ![Boot].id = i, ![Boot].tries = 1, ![Boot].pc = "find"]
    BY DEF BootNext
  <2>3. thread' \in [Threads -> ThreadType] /\ CallsOK'
    <3>1. thread[Boot] \in ThreadType
      BY <2>1, <1>0
    <3>2. 1 \in 0 .. Attempts
      BY <1>0
    <3>3. [thread[Boot] EXCEPT !.id = i, !.tries = 1, !.pc = "find"] \in ThreadType
      BY <3>1, <3>2 DEF ThreadStates
    <3>4. thread' = [thread EXCEPT ![Boot] =
                       [thread[Boot] EXCEPT !.id = i, !.tries = 1, !.pc = "find"]]
      BY <2>1, <2>2, <1>0
    <3>5. thread' \in [Threads -> ThreadType]
      BY <2>1, <3>3, <3>4, <1>0
    <3>6. CallsOK'
      BY <2>1, <3>1, <3>4, <1>0 DEF CallsOK
    <3> QED BY <3>5, <3>6
  <2>4. /\ UNCHANGED <<up, repository, stateVars, processVars, pipeVars>>
        /\ bootIds' \subseteq Ids
    BY DEF BootNext, SupervisorTypeOK
  <2> HIDE DEF ThreadType
  <2> QED BY <2>3, <2>4, <1>1 DEF SupervisorTypeOK
<1>5. CASE BootDone
  BY <1>5, <1>0, <1>1 DEF BootDone, SupervisorTypeOK, CallsOK
<1>6. CASE ConductorCrash
  <2>1. PipeTypeOK'
    BY <1>6, CloseClientEndType DEF ConductorCrash, ConductorGone
  <2>2. ProcessTypeOK'
    BY <1>6 DEF ConductorCrash, ConductorGone, processVars, osVars, ProcessTypeOK
  <2>3. IdleThread \in ThreadType
    BY <1>0 DEF IdleThread, ThreadStates
  <2>4. SupervisorTypeOK' /\ CallsOK'
    BY <1>6, <2>3
       DEF ConductorCrash, ConductorGone, SupervisorTypeOK, CallsOK, NoCalls, NoChildren,
           NoReceivers, AllStopped, NoBeats, IdleThread
  <2> QED BY <2>1, <2>2, <2>4
<1> QED BY <1>2, <1>3, <1>4, <1>5, <1>6 DEF BootStep

LEMMA InitType == Init => TypeInv
<1> SUFFICES ASSUME Init PROVE TypeInv
  OBVIOUS
<1>1. PipeTypeOK
  BY ConstantsAssumption DEF Init, PipeInit, PipeTypeOK, FreeLink, LinkStates
<1>2. ProcessTypeOK
  BY DEF Init, ProcessInit, ProcessTypeOK, NoProcess, MainStates
<1>3. IdleThread \in [pc : ThreadStates, id : Ids \cup {None}, pid : Pids \cup {None},
                      conn : Conns \cup {None}, tries : 0 .. Attempts, targets : SUBSET Pids]
  BY SupervisorAssumption DEF IdleThread, ThreadStates
<1>4. SupervisorTypeOK /\ CallsOK
  BY <1>3 DEF Init, SupervisorInit, SupervisorTypeOK, CallsOK, NoCalls, NoChildren,
              NoReceivers, AllStopped, NoBeats, IdleThread
<1> QED BY <1>1, <1>2, <1>4 DEF TypeInv, TypeOK

LEMMA NextType == TypeInv /\ [Next]_vars => TypeInv'
<1> SUFFICES ASSUME TypeInv, [Next]_vars PROVE TypeInv'
  OBVIOUS
<1>1. CASE \E p \in Pids : StreamProcessStep(p)
  BY <1>1, ProcessStepType
     DEF StreamProcessStep, TypeInv, TypeOK, CallsOK, SupervisorTypeOK, supervisorVars,
         callVars, stateVars
<1>2. CASE \E t \in Threads : CallStep(t)
  BY <1>2, CallStepType
<1>3. CASE (\E c \in Conns : ReceiverStep(c)) \/ (\E i \in Ids : Expire(i)) \/ MonitorStep
  BY <1>3, StateStepType
<1>4. CASE OperatorRequest \/ ConductorStart \/ BootStep \/ ConductorCrash
  BY <1>4, LifeStepType
<1>5. CASE UNCHANGED vars
  BY <1>5 DEF vars, supervisorVars, callVars, stateVars, processVars, osVars, pipeVars,
              TypeInv, TypeOK, PipeTypeOK, ProcessTypeOK, SupervisorTypeOK, CallsOK
<1> QED BY <1>1, <1>2, <1>3, <1>4, <1>5 DEF Next

\* The conductor, its processes and the pipes keep to their types.
THEOREM TypeCorrect == Spec => []TypeOK
<1>1. Spec => []TypeInv
  BY InitType, NextType, PTL DEF Spec
<1>2. TypeInv => TypeOK
  BY DEF TypeInv
<1> QED BY <1>1, <1>2, PTL

-----------------------------------------------------------------------------
(***************************************************************************)
(* The guard.  OneGuarded is not inductive: it follows from who holds the  *)
(* mutex.  A process past the guard holds the mutex of its identifier, and *)
(* a mutex has one holder.                                                 *)
(***************************************************************************)

GuardHeld ==
  \A p \in Pids :
    /\ Alive(p) => proc[p].id \in Ids
    /\ Guarded(p) => mutexHolder[proc[p].id] = p

GuardInv == TypeInv /\ GuardHeld

GuardedMove(p) ==
  /\ Guarded(p)
  /\ \E pc \in GuardedStates : Goto(p, pc)
  /\ UNCHANGED mutexHolder

\* What a step of the system can do to the processes and their mutexes.
OsStep ==
  \/ UNCHANGED <<proc, mutexHolder>>
  \/ \E p \in Pids : \/ \E i \in Ids : SpawnProcess(p, i)
                     \/ ProcessesGone({p})
                     \/ AcquireMutex(p)
                     \/ ReleaseMutex(p)
                     \/ GuardedMove(p)

LEMMA NextIsOsStep == ASSUME TypeInv, [Next]_vars PROVE OsStep
<1>1. ASSUME NEW p \in Pids, ProcessStep(p) PROVE OsStep
  <2>1. CASE AcquireMutex(p)
    BY <2>1 DEF OsStep
  <2>2. CASE OpenListener(p)
    BY <2>2 DEF OsStep, OpenListener, GuardedMove, Guarded, GuardedStates
  <2>3. CASE ConnectionStep(p)
    BY <2>3 DEF OsStep, ConnectionStep, Accept, AcceptAbandoned, ReceiveHello, ReceiveStop,
                ReceiveEof, GuardedMove, Guarded, GuardedStates
  <2>4. CASE CloseListener(p)
    BY <2>4 DEF OsStep, CloseListener, GuardedMove, Guarded, GuardedStates
  <2>5. CASE ReleaseMutex(p)
    BY <2>5 DEF OsStep
  <2>6. CASE Exit(p) \/ ProcessCrash(p)
    BY <2>6 DEF OsStep, Exit, ProcessCrash
  <2>7. CASE HeartbeatStep(p) \/ PipelineEnds(p)
    BY <2>7 DEF OsStep, HeartbeatStep, HeartbeatTake, HeartbeatSend, PipelineEnds, osVars
  <2> QED BY <1>1, <2>1, <2>2, <2>3, <2>4, <2>5, <2>6, <2>7 DEF ProcessStep, MainStep
<1>2. ASSUME NEW t \in Threads, CallStep(t) PROVE OsStep
  <2>1. thread[t].pid \in Pids \cup {None}
    BY DEF TypeInv, TypeOK, SupervisorTypeOK
  <2>2. CASE \E p \in Pids : StartSpawn(t, p)
    <3>1. thread[t].id \in Ids
      BY <2>2 DEF StartSpawn, At, TypeInv, CallsOK
    <3> QED BY <2>2, <3>1 DEF StartSpawn, OsStep
  <2>3. CASE GiveUp(t)
    <3>1. CASE thread[t].pid \in Pids
      <4>1. {thread[t].pid} \ {None} = {thread[t].pid}
        BY <3>1, ConstantsAssumption
      <4> QED BY <2>3, <3>1, <4>1 DEF GiveUp, OsStep
    <3>2. CASE thread[t].pid = None
      <4>1. ProcessesGone({})
        <5>1. {thread[t].pid} \ {None} = {}
          BY <3>2
        <5> QED BY <2>3, <5>1 DEF GiveUp
      <4>2. proc' = proc /\ mutexHolder' = mutexHolder
        BY <4>1 DEF ProcessesGone, TypeInv, TypeOK, ProcessTypeOK
      <4> QED BY <4>2 DEF OsStep
    <3> QED BY <2>1, <3>1, <3>2
  <2>4. CASE \E p \in Pids : Kill(t, p)
    BY <2>4 DEF Kill, OsStep
  <2>5. ASSUME UNCHANGED processVars PROVE OsStep
    BY <2>5 DEF processVars, osVars, OsStep
  <2>6. CASE StartLocate(t) \/ FindChild(t) \/ ConnectFails(t) \/ Handshake(t)
               \/ HandshakeRefused(t) \/ Register(t) \/ SendHello(t)
    BY <2>6, <2>5 DEF StartLocate, FindChild, ConnectFails, Handshake, HandshakeRefused,
                      Register, SendHello
  <2>7. CASE HelloFails(t)
    BY <2>7, <2>5 DEF HelloFails, ConductorGone
  <2>8. CASE (\E p \in Pids, c \in Conns : Connect(t, p, c)) \/ StopFindChild(t)
               \/ SendStop(t) \/ StopLocate(t) \/ KillFails(t)
    BY <2>8, <2>5 DEF Connect, StopFindChild, SendStop, StopLocate, KillFails
  <2> QED BY <1>2, <2>2, <2>3, <2>4, <2>6, <2>7, <2>8 DEF CallStep
<1>3. ASSUME UNCHANGED <<proc, mutexHolder>> PROVE OsStep
  BY <1>3 DEF OsStep
<1>4. CASE OperatorRequest
  BY <1>4, <1>3 DEF OperatorRequest, AddProcess, DeleteProcess, StartRequest, StopRequest,
                    Request, processVars, osVars
<1>5. CASE \E c \in Conns : ReceiverStep(c)
  BY <1>5, <1>3 DEF ReceiverStep, ReceiveBeat, BeatRunning, NotifyClosed, Unregister,
                    MarkStopped, processVars, osVars
<1>6. CASE (\E i \in Ids : Expire(i)) \/ MonitorStep
  BY <1>6, <1>3 DEF Expire, MonitorStep, MonitorScan, MonitorMark, processVars, osVars
<1>7. CASE ConductorStart \/ BootStep \/ ConductorCrash
  BY <1>7, <1>3 DEF ConductorStart, BootStep, BootDone, BootNext, ConductorCrash,
                    ConductorGone, processVars, osVars
<1>8. CASE UNCHANGED vars
  BY <1>8, <1>3 DEF vars, processVars, osVars
<1> QED BY <1>1, <1>2, <1>4, <1>5, <1>6, <1>7, <1>8 DEF Next, StreamProcessStep

LEMMA InitGuard == Init => GuardHeld
BY DEF Init, ProcessInit, GuardHeld, Alive, Guarded, GuardedStates, NoProcess

LEMMA NextGuard == ASSUME GuardInv, OsStep PROVE GuardHeld'
<1> USE DEF GuardHeld, Alive, Guarded, GuardedStates
<1>0. /\ proc \in [Pids -> [id : Ids \cup {None}, pc : MainStates]]
      /\ mutexHolder \in [Ids -> Pids \cup {None}]
      /\ None \notin Pids
  BY ConstantsAssumption DEF GuardInv, TypeInv, TypeOK, ProcessTypeOK
<1>1. CASE UNCHANGED <<proc, mutexHolder>>
  BY <1>1 DEF GuardInv
<1>2. ASSUME NEW p \in Pids, NEW i \in Ids, SpawnProcess(p, i) PROVE GuardHeld'
  BY <1>0, <1>2 DEF GuardInv, SpawnProcess
<1>3. ASSUME NEW p \in Pids, ProcessesGone({p}) PROVE GuardHeld'
  BY <1>0, <1>3 DEF GuardInv, ProcessesGone, NoProcess
<1>4. ASSUME NEW p \in Pids, AcquireMutex(p) PROVE GuardHeld'
  <2>1. CASE DuplicateFound(proc[p].id)
    BY <1>3, <1>4, <2>1 DEF AcquireMutex
  <2>2. CASE ~DuplicateFound(proc[p].id)
    <3>1. proc[p].pc = "spawned" /\ proc[p].id \in Ids
      BY <1>4 DEF AcquireMutex, GuardInv
    <3>2. /\ proc' = [proc EXCEPT ![p].pc = "guarded"]
          /\ mutexHolder' = [mutexHolder EXCEPT ![proc[p].id] = p]
          /\ mutexHolder[proc[p].id] = None
      BY <1>4, <2>2 DEF AcquireMutex, Goto, DuplicateFound
    <3>3. \A q \in Pids : q # p => proc'[q] = proc[q]
      BY <1>0, <3>2
    <3>4. \A q \in Pids : (q # p /\ Guarded(q)) => proc[q].id # proc[p].id
      BY <1>0, <3>2 DEF GuardInv
    <3>5. proc'[p].id = proc[p].id /\ mutexHolder'[proc[p].id] = p
      BY <1>0, <3>1, <3>2
    <3> QED BY <1>0, <3>1, <3>2, <3>3, <3>4, <3>5 DEF GuardInv
  <2> QED BY <2>1, <2>2
<1>5. ASSUME NEW p \in Pids, ReleaseMutex(p) PROVE GuardHeld'
  BY <1>0, <1>5 DEF GuardInv, ReleaseMutex, ReleasedBy, Goto
<1>6. ASSUME NEW p \in Pids, GuardedMove(p) PROVE GuardHeld'
  BY <1>0, <1>6 DEF GuardInv, GuardedMove, Goto
<1> QED BY <1>1, <1>2, <1>3, <1>4, <1>5, <1>6 DEF OsStep

\* Who is past the guard holds its mutex, in every reachable state.
THEOREM GuardInvariant == Spec => []GuardInv
<1>1. Init => GuardInv
  BY InitType, InitGuard DEF GuardInv
<1>2. GuardInv /\ [Next]_vars => GuardInv'
  <2> SUFFICES ASSUME GuardInv, [Next]_vars PROVE GuardInv'
    OBVIOUS
  <2>1. TypeInv'
    BY NextType DEF GuardInv
  <2>2. GuardHeld'
    BY NextIsOsStep, NextGuard DEF GuardInv
  <2> QED BY <2>1, <2>2 DEF GuardInv
<1> QED BY <1>1, <1>2, PTL DEF Spec

LEMMA HeldByOne == GuardHeld => OneGuarded
BY DEF GuardHeld, OneGuarded, GuardedOf, Guarded

\* acquire_process_mutex (guard.py:22) keeps a second process of an identifier
\* from going past the guard.
THEOREM GuardCorrect == Spec => []OneGuarded
BY GuardInvariant, HeldByOne, PTL DEF GuardInv

-----------------------------------------------------------------------------
(***************************************************************************)
(* The refinement: a step of the system enters the guarded section of one  *)
(* identifier while nobody is in it, leaves it, or does not touch it.      *)
(***************************************************************************)

running == [i \in Ids |-> GuardedOf(i)]

LEMMA OsStepIsSingle ==
  ASSUME GuardInv, OsStep
  PROVE  Single!Next \/ UNCHANGED running
<1> USE DEF Guarded, GuardedStates
<1>0. /\ proc \in [Pids -> [id : Ids \cup {None}, pc : MainStates]]
      /\ mutexHolder \in [Ids -> Pids \cup {None}]
      /\ None \notin Pids
      /\ GuardHeld
  BY ConstantsAssumption DEF GuardInv, TypeInv, TypeOK, ProcessTypeOK
<1>1. CASE UNCHANGED <<proc, mutexHolder>>
  BY <1>1 DEF running, GuardedOf
<1>2. ASSUME NEW p \in Pids, NEW i \in Ids, SpawnProcess(p, i) PROVE UNCHANGED running
  <2>1. \A j \in Ids : GuardedOf(j)' = GuardedOf(j)
    BY <1>0, <1>2 DEF SpawnProcess, Alive, GuardedOf
  <2> QED BY <2>1 DEF running
<1>3. ASSUME NEW p \in Pids, ~Guarded(p), ~Guarded(p)',
             \A q \in Pids \ {p} : proc'[q] = proc[q]
      PROVE  UNCHANGED running
  <2>1. \A j \in Ids : GuardedOf(j)' = GuardedOf(j)
    BY <1>3 DEF GuardedOf
  <2> QED BY <2>1 DEF running
<1>4. ASSUME NEW p \in Pids, Guarded(p), ~Guarded(p)',
             \A q \in Pids \ {p} : proc'[q] = proc[q]
      PROVE  Single!Next
  <2>1. PICK i \in Ids : proc[p].id = i
    BY <1>0, <1>4 DEF GuardHeld, Alive
  <2>2. \A q \in GuardedOf(i) : q = p
    BY <1>0, <1>4, <2>1, HeldByOne DEF OneGuarded, GuardedOf
  <2>3. p \in GuardedOf(i) /\ GuardedOf(i)' = {}
    BY <1>4, <2>1, <2>2 DEF GuardedOf
  <2>4. \A j \in Ids : j # i => GuardedOf(j)' = GuardedOf(j)
    BY <1>4, <2>1 DEF GuardedOf
  <2>5. [j \in Ids |-> GuardedOf(j)]' = [[j \in Ids |-> GuardedOf(j)] EXCEPT ![i] = {}]
    BY <2>1, <2>3, <2>4
  <2>6. Single!Leave(i)
    BY <2>1, <2>3, <2>5 DEF Single!Leave
  <2> QED BY <2>1, <2>6 DEF Single!Next
<1>5. ASSUME NEW p \in Pids, ProcessesGone({p})
      PROVE  Single!Next \/ UNCHANGED running
  <2>1. ~Guarded(p)' /\ \A q \in Pids \ {p} : proc'[q] = proc[q]
    BY <1>5 DEF ProcessesGone, NoProcess
  <2> QED BY <2>1, <1>3, <1>4
<1>6. ASSUME NEW p \in Pids, ReleaseMutex(p)
      PROVE  Single!Next \/ UNCHANGED running
  <2>1. ~Guarded(p)' /\ \A q \in Pids \ {p} : proc'[q] = proc[q]
    BY <1>0, <1>6 DEF ReleaseMutex, Goto
  <2> QED BY <2>1, <1>3, <1>4
<1>7. ASSUME NEW p \in Pids, AcquireMutex(p)
      PROVE  Single!Next \/ UNCHANGED running
  <2>1. CASE DuplicateFound(proc[p].id)
    BY <1>5, <1>7, <2>1 DEF AcquireMutex
  <2>2. CASE ~DuplicateFound(proc[p].id)
    <3>1. PICK i \in Ids : proc[p].id = i /\ proc[p].pc = "spawned"
      BY <1>0, <1>7 DEF AcquireMutex, GuardHeld, Alive
    <3>2. proc' = [proc EXCEPT ![p].pc = "guarded"]
      BY <1>7, <2>2 DEF AcquireMutex, Goto
    <3>3. GuardedOf(i) = {}
      BY <1>0, <2>2, <3>1 DEF GuardedOf, DuplicateFound, GuardHeld
    <3>4. \A j \in Ids : j # i => GuardedOf(j)' = GuardedOf(j)
      BY <1>0, <3>1, <3>2 DEF GuardedOf
    <3>5. GuardedOf(i)' = {p}
      BY <1>0, <3>1, <3>2, <3>3 DEF GuardedOf
    <3>6. [j \in Ids |-> GuardedOf(j)]' = [[j \in Ids |-> GuardedOf(j)] EXCEPT ![i] = {p}]
      BY <3>1, <3>4, <3>5
    <3>7. Single!Enter(i, p)
      BY <3>1, <3>3, <3>6 DEF Single!Enter
    <3> QED BY <3>1, <3>7 DEF Single!Next
  <2> QED BY <2>1, <2>2
<1>8. ASSUME NEW p \in Pids, GuardedMove(p) PROVE UNCHANGED running
  <2>1. \A j \in Ids : GuardedOf(j)' = GuardedOf(j)
    BY <1>0, <1>8 DEF GuardedMove, Goto, GuardedOf
  <2> QED BY <2>1 DEF running
<1> QED BY <1>1, <1>2, <1>5, <1>6, <1>7, <1>8 DEF OsStep

\* The guard of the stream process implements SingleInstance, whatever the
\* conductor does and whichever processes end.
THEOREM GuardRefines == Spec => ImplementsSingleInstance
<1>1. Init => Single!Init
  BY DEF Init, ProcessInit, Single!Init, GuardedOf, Guarded, GuardedStates, NoProcess
<1>2. GuardInv /\ [Next]_vars => [Single!Next]_running
  BY NextIsOsStep, OsStepIsSingle DEF GuardInv
<1> QED BY <1>1, <1>2, GuardInvariant, PTL
        DEF Spec, ImplementsSingleInstance, Single!Spec, running
=============================================================================
