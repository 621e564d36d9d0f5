-------------------------- MODULE ConversationProofs --------------------------
(***************************************************************************)
(* Theorems about the connections of Conductor, for every set of           *)
(* identifiers, pids, connections and workers and every combination of     *)
(* faults: one conversation for each identifier at a time, on the          *)
(* connection its process takes for the current one, and begun only after  *)
(* the end of the one before has been handled.                             *)
(***************************************************************************)
EXTENDS ConductorProofs

-----------------------------------------------------------------------------
(***************************************************************************)
(* The inductive invariant.  None of the three properties is inductive:    *)
(* that an identifier has one conversation rests on the guard and on a     *)
(* process serving one connection; that the handling of a close precedes   *)
(* the next conversation rests on the broken instance of the pipe, which   *)
(* keeps every later process of the identifier from opening its listener   *)
(* until the receive thread drops it.                                      *)
(***************************************************************************)

ServerHas(l) == l.state \in {"pending", "open", "abandoned", "orphaned"}

\* A link its server has not left belongs to a process that still has the pipe,
\* and one it has accepted to a process that serves it.
ServerHolds ==
  \A c \in Conns : ServerHas(link[c]) =>
    /\ link[c].server \in Pids
    /\ Listening(link[c].server)
    /\ proc[link[c].server].id = link[c].id
    /\ link[c].state \in {"open", "orphaned"} => proc[link[c].server].pc = "serving"

ServesOne == \A p \in Pids : \A c, d \in ServedBy(p) : c = d

InLoop(pc) == pc \in {"accepting", "serving"}

\* While the conductor holds the end of a connection whose server is gone, no
\* process of that identifier is in its accept loop.
BrokenBlocks ==
  \A c \in Conns, p \in Pids :
    (link[c].state = "broken" /\ proc[p].id = link[c].id)
      => ~InLoop(proc[p].pc)

Closing(c) == receiver[c] \in {"closing", "marking"}

ClosingIsBroken == \A c \in Conns : Closing(c) => link[c].state = "broken"

LinkInv ==
  /\ ServerHolds
  /\ ServesOne
  /\ ServedIsCurrent
  /\ BrokenBlocks
  /\ ClosingIsBroken
-----------------------------------------------------------------------------
(***************************************************************************)
(* What a step can do to the links and to the processes that serve them.   *)
(***************************************************************************)

\* Neither a link nor a process changes; a connection that is not open may be
\* given up by its process, and a broken one may begin to be closed.
LinksRest ==
  /\ UNCHANGED <<link, proc>>
  /\ \A p \in Pids : \/ current'[p] = current[p]
                     \/ \E c \in Conns : current[p] = c /\ link[c].state # "open"
  /\ \A c \in Conns : Closing(c)' => Closing(c) \/ link[c].state = "broken"

\* The conductor leaves the links of cs, each refused or not being handled.
ClientLeaves(cs) ==
  /\ CloseClientEnd(cs)
  /\ UNCHANGED <<proc, current>>
  /\ \A c \in Conns : Closing(c)' => Closing(c)
  /\ \A c \in cs \cap Conns : link[c].state = "refused" \/ ~Closing(c)'

ServerStep(p) ==
  /\ UNCHANGED receiver
  /\ \/ \E i \in Ids : SpawnProcess(p, i)
     \/ ProcessesGone({p})
     \/ AcquireMutex(p)
     \/ OpenListener(p)
     \/ ConnectionStep(p)
     \/ CloseListener(p)
     \/ ReleaseMutex(p)

ConnectStep(t, p, c) == Connect(t, p, c) /\ UNCHANGED receiver

LinkStep ==
  \/ LinksRest
  \/ \E cs \in SUBSET Conns : ClientLeaves(cs)
  \/ \E p \in Pids : ServerStep(p)
  \/ \E t \in Threads, p \in Pids, c \in Conns : ConnectStep(t, p, c)

LEMMA CallIsLinkStep ==
  ASSUME TypeInv, NEW t \in Threads, CallStep(t)
  PROVE  LinkStep
<1>0. /\ thread[t].pid \in Pids \cup {None}
      /\ thread[t].conn \in Conns \cup {None}
  BY DEF TypeInv, TypeOK, SupervisorTypeOK
<1>1. ASSUME UNCHANGED <<link, proc, current, receiver>> PROVE LinkStep
  BY <1>1 DEF LinkStep, LinksRest, Closing
<1> USE DEF keptVars, stateVars, processVars, osVars, pipeVars
<1>2. CASE \E p \in Pids : StartSpawn(t, p)
  <2>1. thread[t].id \in Ids
    BY <1>2 DEF StartSpawn, At, TypeInv, CallsOK
  <2> QED BY <1>2, <2>1 DEF StartSpawn, LinkStep, ServerStep
<1>3. CASE \E p \in Pids, c \in Conns : Connect(t, p, c)
  BY <1>3 DEF LinkStep, ConnectStep, Connect
<1>4. CASE Handshake(t)
  <2>1. \A c \in Conns : Closing(c)' => Closing(c)
    BY <1>4 DEF Handshake, Closing, TypeInv, TypeOK, SupervisorTypeOK
  <2> QED BY <1>4, <2>1 DEF Handshake, LinkStep, LinksRest
<1>5. CASE HandshakeRefused(t)
  <2> DEFINE cs == {thread[t].conn} \cap Conns
  <2>1. CloseClientEnd(cs)
    BY <1>5 DEF HandshakeRefused, CloseClientEnd
  <2>2. ClientLeaves(cs)
    BY <1>5, <2>1 DEF HandshakeRefused, ClientLeaves, Closing
  <2> QED BY <2>2 DEF LinkStep
<1>6. CASE HelloFails(t)
  <2>1. CASE t = Boot
    <3>1. ClientLeaves(Conns)
      BY <1>6, <2>1 DEF HelloFails, ConductorGone, ClientLeaves, Closing, NoReceivers
    <3> QED BY <3>1 DEF LinkStep
  <2>2. CASE t # Boot
    BY <1>6, <2>2, <1>1 DEF HelloFails
  <2> QED BY <2>1, <2>2
<1>7. CASE GiveUp(t)
  <2>1. CASE thread[t].pid \in Pids
    <3>1. {thread[t].pid} \ {None} = {thread[t].pid}
      BY <2>1, ConstantsAssumption
    <3> QED BY <1>7, <2>1, <3>1 DEF GiveUp, LinkStep, ServerStep
  <2>2. CASE thread[t].pid = None
    <3>1. ProcessesGone({})
      <4>1. {thread[t].pid} \ {None} = {}
        BY <2>2
      <4> QED BY <1>7, <4>1 DEF GiveUp
    <3>2. link' = link /\ proc' = proc /\ current' = current
      BY <3>1 DEF ProcessesGone, CloseServerEnd, TypeInv, TypeOK, ProcessTypeOK, PipeTypeOK
    <3> QED BY <1>7, <3>2, <1>1 DEF GiveUp
  <2> QED BY <1>0, <2>1, <2>2
<1>8. CASE \E p \in Pids : Kill(t, p)
  BY <1>8 DEF Kill, LinkStep, ServerStep
<1>9. CASE StartLocate(t) \/ FindChild(t) \/ ConnectFails(t) \/ Register(t)
             \/ StopFindChild(t) \/ StopLocate(t) \/ KillFails(t)
  BY <1>9, <1>1 DEF StartLocate, FindChild, ConnectFails, Register, StopFindChild,
                    StopLocate, KillFails
<1>10. CASE SendHello(t) \/ SendStop(t)
  BY <1>10, <1>1 DEF SendHello, SendStop
<1> QED BY <1>2, <1>3, <1>4, <1>5, <1>6, <1>7, <1>8, <1>9, <1>10 DEF CallStep

LEMMA ReceiverIsLinkStep ==
  ASSUME TypeInv, NEW c \in Conns, ReceiverStep(c)
  PROVE  LinkStep
<1> USE DEF callVars, processVars, osVars, pipeVars, Closing
<1>0. receiver \in [Conns -> {"none", "loop", "beat", "closing", "marking"}]
  BY DEF TypeInv, TypeOK, SupervisorTypeOK
<1>1. CASE ReceiveBeat(c) \/ BeatRunning(c) \/ NotifyClosed(c) \/ Unregister(c)
  BY <1>0, <1>1 DEF ReceiveBeat, BeatRunning, NotifyClosed, Unregister, LinkStep, LinksRest
<1>2. CASE MarkStopped(c)
  <2>1. ClientLeaves({c})
    BY <1>0, <1>2 DEF MarkStopped, ClientLeaves
  <2> QED BY <2>1 DEF LinkStep
<1> QED BY <1>1, <1>2 DEF ReceiverStep

LEMMA NextIsLinkStep == ASSUME TypeInv, [Next]_vars PROVE LinkStep
<1>1. ASSUME UNCHANGED <<link, proc, current, receiver>> PROVE LinkStep
  BY <1>1 DEF LinkStep, LinksRest, Closing
<1>2. ASSUME NEW p \in Pids, StreamProcessStep(p) PROVE LinkStep
  <2>0. UNCHANGED receiver /\ ProcessStep(p)
    BY <1>2 DEF StreamProcessStep, supervisorVars, stateVars
  <2>1. CASE AcquireMutex(p) \/ OpenListener(p) \/ ConnectionStep(p) \/ CloseListener(p)
               \/ ReleaseMutex(p)
    BY <2>0, <2>1 DEF LinkStep, ServerStep
  <2>2. CASE Exit(p) \/ ProcessCrash(p)
    BY <2>0, <2>2 DEF Exit, ProcessCrash, LinkStep, ServerStep
  <2>3. CASE HeartbeatTake(p) \/ PipelineEnds(p)
    BY <2>0, <2>3, <1>1 DEF HeartbeatTake, PipelineEnds, osVars, pipeVars
  <2>4. CASE HeartbeatSend(p)
    <3>1. current \in [Pids -> Conns \cup {None}] /\ beatTarget[p] \in Conns
      BY <2>4 DEF HeartbeatSend, TypeInv, TypeOK, ProcessTypeOK
    <3>2. \A q \in Pids : \/ current'[q] = current[q]
                          \/ \E c \in Conns : current[q] = c /\ link[c].state # "open"
      BY <2>4, <3>1 DEF HeartbeatSend, ClearedCurrent
    <3> QED BY <2>0, <2>4, <3>2 DEF HeartbeatSend, osVars, LinkStep, LinksRest, Closing
  <2> QED BY <2>0, <2>1, <2>2, <2>3, <2>4 DEF ProcessStep, MainStep, HeartbeatStep
<1>3. CASE OperatorRequest
  BY <1>3, <1>1 DEF OperatorRequest, AddProcess, DeleteProcess, StartRequest, StopRequest,
                    Request, processVars, osVars, pipeVars, stateVars
<1>4. CASE (\E i \in Ids : Expire(i)) \/ MonitorStep
  BY <1>4, <1>1 DEF Expire, MonitorStep, MonitorScan, MonitorMark, processVars, osVars,
                    pipeVars
<1>5. CASE ConductorStart \/ BootStep
  BY <1>5, <1>1 DEF ConductorStart, BootStep, BootDone, BootNext, processVars, osVars,
                    pipeVars, stateVars
<1>6. CASE ConductorCrash
  <2>1. ClientLeaves(Conns)
    BY <1>6 DEF ConductorCrash, ConductorGone, ClientLeaves, Closing, NoReceivers,
                processVars, osVars
  <2> QED BY <2>1 DEF LinkStep
<1>7. CASE UNCHANGED vars
  BY <1>7, <1>1 DEF vars, processVars, osVars, supervisorVars, stateVars, pipeVars
<1> QED BY <1>2, <1>3, <1>4, <1>5, <1>6, <1>7, CallIsLinkStep, ReceiverIsLinkStep DEF Next

-----------------------------------------------------------------------------
(***************************************************************************)
(* Each kind of step keeps the invariant.                                  *)
(***************************************************************************)

LinkType == [id : Ids \cup {None}, server : Pids \cup {None}, state : LinkStates]
ProcType == [id : Ids \cup {None}, pc : MainStates]

LEMMA LinkTypes ==
  ASSUME TypeInv
  PROVE  /\ link \in [Conns -> LinkType]
         /\ proc \in [Pids -> ProcType]
         /\ current \in [Pids -> Conns \cup {None}]
         /\ None \notin Pids /\ None \notin Conns
BY ConstantsAssumption
   DEF TypeInv, TypeOK, PipeTypeOK, ProcessTypeOK, LinkType, ProcType

\* What a link is after its server, or the conductor, has left it.
LEMMA ServerLeft ==
  ASSUME NEW l \in LinkType
  PROVE  /\ ~ServerHas(ServerClosed(l))
         /\ ServerClosed(l).state = "broken" =>
              l.state \in {"open", "broken"} /\ ServerClosed(l).id = l.id
         /\ l.state = "broken" => ServerClosed(l) = l
BY DEF ServerClosed, ServerHas, LinkType, LinkStates, FreeLink

LEMMA ClientLeft ==
  ASSUME NEW l \in LinkType
  PROVE  /\ ServerHas(ClientClosed(l)) =>
              /\ ServerHas(l)
              /\ ClientClosed(l).server = l.server /\ ClientClosed(l).id = l.id
              /\ ClientClosed(l).state \in {"open", "orphaned"} =>
                   l.state \in {"open", "orphaned"}
         /\ ClientClosed(l).state # "open"
         /\ ClientClosed(l).state # "broken"
         /\ l.state = "refused" => ClientClosed(l) = FreeLink
BY DEF ClientClosed, ServerHas, LinkType, LinkStates, FreeLink

LEMMA RestKeeps == ASSUME TypeInv, LinkInv, LinksRest PROVE LinkInv'
<1>1. ServerHolds' /\ ServesOne' /\ BrokenBlocks'
  BY DEF LinkInv, LinksRest, ServerHolds, ServesOne, BrokenBlocks, ServedBy, Listening
<1>2. ServedIsCurrent'
  <2> SUFFICES ASSUME NEW p \in Pids, NEW c \in ServedBy(p)', proc'[p].pc = "serving",
                      link'[c].state = "open"
               PROVE  current'[p] = c
    BY DEF ServedIsCurrent
  <2>1. c \in ServedBy(p) /\ current[p] = c /\ link[c].state = "open"
    BY DEF LinksRest, LinkInv, ServedIsCurrent, ServedBy
  <2> QED BY <2>1 DEF LinksRest
<1>3. ClosingIsBroken'
  BY DEF LinkInv, LinksRest, ClosingIsBroken
<1> QED BY <1>1, <1>2, <1>3 DEF LinkInv

LEMMA ClientLeavesKeeps ==
  ASSUME TypeInv, LinkInv, NEW cs \in SUBSET Conns, ClientLeaves(cs)
  PROVE  LinkInv'
<1>0. \A c \in Conns : link[c] \in LinkType
  BY LinkTypes
<1>1. \A c \in Conns : link'[c] = IF c \in cs THEN ClientClosed(link[c]) ELSE link[c]
  BY DEF ClientLeaves, CloseClientEnd
<1>2. \A c \in Conns :
        /\ ServerHas(link'[c]) =>
             /\ ServerHas(link[c])
             /\ link'[c].server = link[c].server /\ link'[c].id = link[c].id
             /\ link'[c].state \in {"open", "orphaned"} => link[c].state \in {"open", "orphaned"}
        /\ link'[c].state \in {"open", "broken"} => link'[c] = link[c]
  BY <1>0, <1>1, ClientLeft
<1>3. \A p \in Pids : ServedBy(p)' \subseteq ServedBy(p)
  BY <1>2 DEF ServedBy, ServerHas
<1>4. UNCHANGED <<proc, current>>
  BY DEF ClientLeaves
<1>5. ServerHolds'
  BY <1>2, <1>4 DEF LinkInv, ServerHolds, Listening
<1>6. ServesOne'
  BY <1>3 DEF LinkInv, ServesOne
<1>7. ServedIsCurrent'
  <2> SUFFICES ASSUME NEW p \in Pids, NEW c \in ServedBy(p)', proc'[p].pc = "serving",
                      link'[c].state = "open"
               PROVE  current'[p] = c
    BY DEF ServedIsCurrent
  <2>1. c \in ServedBy(p) /\ link[c].state = "open"
    BY <1>2, <1>3 DEF ServedBy
  <2> QED BY <1>4, <2>1 DEF LinkInv, ServedIsCurrent
<1>8. BrokenBlocks'
  BY <1>2, <1>4 DEF LinkInv, BrokenBlocks
<1>9. ClosingIsBroken'
  <2> SUFFICES ASSUME NEW c \in Conns, Closing(c)' PROVE link'[c].state = "broken"
    BY DEF ClosingIsBroken
  <2>1. link[c].state = "broken"
    BY DEF ClientLeaves, LinkInv, ClosingIsBroken
  <2>2. c \notin cs
    BY <2>1 DEF ClientLeaves
  <2> QED BY <1>1, <2>1, <2>2
<1> QED BY <1>5, <1>6, <1>7, <1>8, <1>9 DEF LinkInv

\* A process leaves the links of cs, which are its own, and goes on to another state of
\* its main thread, or is gone; it has only such links left as that state allows.
ServerLeaves(p, cs, pc) ==
  /\ CloseServerEnd(cs)
  /\ \A q \in Pids \ {p} : proc'[q] = proc[q] /\ current'[q] = current[q]
  /\ proc'[p].pc = pc
  /\ pc # "none" => proc'[p].id = proc[p].id
  /\ UNCHANGED receiver
  /\ InLoop(pc) => InLoop(proc[p].pc)
  /\ \A c \in cs : ServerHas(link[c]) =>
       link[c].server = p /\ (link[c].state = "open" => ~InLoop(pc))
  /\ \A c \in Conns \ cs : (ServerHas(link[c]) /\ link[c].server = p) =>
       /\ pc \in {"accepting", "serving", "stopping"}
       /\ link[c].state \in {"pending", "abandoned"}

LEMMA ServerLeavesKeeps ==
  ASSUME GuardInv, LinkInv, NEW p \in Pids, NEW cs \in SUBSET Conns, NEW pc,
         ServerLeaves(p, cs, pc)
  PROVE  LinkInv'
<1>0. \A c \in Conns : link[c] \in LinkType
  BY LinkTypes DEF GuardInv
<1>1. \A c \in Conns : link'[c] = IF c \in cs THEN ServerClosed(link[c]) ELSE link[c]
  BY DEF ServerLeaves, CloseServerEnd
<1>2. \A c \in Conns :
        /\ ServerHas(link'[c]) => c \notin cs /\ link'[c] = link[c]
        /\ link'[c].state = "broken" =>
             /\ link'[c].id = link[c].id
             /\ link[c].state = "broken" \/ (c \in cs /\ link[c].state = "open")
        /\ link[c].state = "broken" => link'[c].state = "broken"
  BY <1>0, <1>1, ServerLeft
<1>3. \A q \in Pids \ {p} : proc'[q] = proc[q] /\ current'[q] = current[q]
  BY DEF ServerLeaves
<1>4. proc'[p].pc = pc /\ (pc # "none" => proc'[p].id = proc[p].id)
  BY DEF ServerLeaves
<1>5. ServerHolds'
  <2> SUFFICES ASSUME NEW c \in Conns, ServerHas(link'[c])
               PROVE  /\ link'[c].server \in Pids
                      /\ Listening(link[c].server)'
                      /\ proc'[link'[c].server].id = link'[c].id
                      /\ link'[c].state \in {"open", "orphaned"} =>
                           proc'[link'[c].server].pc = "serving"
    BY DEF ServerHolds, ServerHas
  <2>1. c \notin cs /\ link'[c] = link[c] /\ ServerHas(link[c])
    BY <1>2
  <2>2. /\ link[c].server \in Pids
        /\ Listening(link[c].server)
        /\ proc[link[c].server].id = link[c].id
        /\ link[c].state \in {"open", "orphaned"} => proc[link[c].server].pc = "serving"
    BY <2>1 DEF LinkInv, ServerHolds
  <2>3. CASE link[c].server = p
    <3>1. /\ pc \in {"accepting", "serving", "stopping"}
          /\ link[c].state \in {"pending", "abandoned"}
      BY <2>1, <2>3 DEF ServerLeaves
    <3> QED BY <1>4, <2>1, <2>2, <2>3, <3>1 DEF Listening
  <2>4. CASE link[c].server # p
    BY <1>3, <2>1, <2>2, <2>4 DEF Listening
  <2> QED BY <2>3, <2>4
<1>6. \A q \in Pids : ServedBy(q)' \subseteq ServedBy(q)
  BY <1>2 DEF ServedBy, ServerHas
<1>7. ServesOne'
  BY <1>6 DEF LinkInv, ServesOne
<1>8. ServedIsCurrent'
  <2> SUFFICES ASSUME NEW q \in Pids, NEW c \in ServedBy(q)', proc'[q].pc = "serving",
                      link'[c].state = "open"
               PROVE  current'[q] = c
    BY DEF ServedIsCurrent
  <2>1. c \in Conns /\ ServerHas(link'[c]) /\ link'[c].server = q
    BY DEF ServedBy, ServerHas
  <2>2. c \notin cs /\ link'[c] = link[c] /\ ServerHas(link[c])
    BY <1>2, <2>1
  <2>3. q # p
    BY <2>1, <2>2 DEF ServerLeaves
  <2>4. current[q] = c
    BY <1>3, <1>6, <2>2, <2>3 DEF LinkInv, ServedIsCurrent
  <2> QED BY <1>3, <2>3, <2>4
<1>9. BrokenBlocks'
  <2> SUFFICES ASSUME NEW c \in Conns, NEW q \in Pids, link'[c].state = "broken",
                      proc'[q].id = link'[c].id, InLoop(proc'[q].pc)
               PROVE  FALSE
    BY DEF BrokenBlocks, InLoop
  <2>1. link'[c].id = link[c].id
    BY <1>2
  <2>2. proc[q].id = link[c].id /\ InLoop(proc[q].pc)
    <3>1. CASE q = p
      BY <1>4, <2>1, <3>1 DEF ServerLeaves, InLoop
    <3>2. CASE q # p
      BY <1>3, <2>1, <3>2
    <3> QED BY <3>1, <3>2
  <2>3. CASE link[c].state = "broken"
    BY <2>2, <2>3 DEF LinkInv, BrokenBlocks, InLoop
  <2>4. CASE c \in cs /\ link[c].state = "open"
    <3>1. link[c].server = p /\ ~InLoop(pc)
      BY <2>4 DEF ServerLeaves, ServerHas
    <3>2. Listening(p) /\ proc[p].id = link[c].id
      BY <2>4, <3>1 DEF LinkInv, ServerHolds, ServerHas
    <3>3. q = p
      BY <2>2, <3>2 DEF GuardInv, GuardHeld, Guarded, GuardedStates, Listening, InLoop
    <3> QED BY <1>4, <3>1, <3>3
  <2> QED BY <1>2, <2>3, <2>4
<1>10. ClosingIsBroken'
  BY <1>2 DEF ServerLeaves, LinkInv, ClosingIsBroken, Closing
<1> QED BY <1>5, <1>7, <1>8, <1>9, <1>10 DEF LinkInv

\* Where no link of a process is left, and when it leaves the only one it serves.
LEMMA StepLeaves ==
  ASSUME GuardInv, LinkInv, NEW p \in Pids, ServerStep(p),
         ~\E i \in Ids : SpawnProcess(p, i),
         ~\E c \in Conns : Accept(p, c),
         ~(OpenListener(p) /\ ~PipeInUse(proc[p].id))
  PROVE  LinksRest \/ \E cs \in SUBSET Conns, pc \in MainStates : ServerLeaves(p, cs, pc)
<1> DEFINE Leaves == \E cs \in SUBSET Conns, pc \in MainStates : ServerLeaves(p, cs, pc)
<1>0. /\ link \in [Conns -> LinkType]
      /\ proc \in [Pids -> ProcType]
      /\ current \in [Pids -> Conns \cup {None}]
      /\ toServer \in [Conns -> Seq({"hello", "stop"})]
  BY LinkTypes DEF GuardInv, TypeInv, TypeOK, PipeTypeOK
<1>1. \A c \in Conns : (ServerHas(link[c]) /\ link[c].server = p) =>
        /\ Listening(p)
        /\ link[c].state \in {"open", "orphaned"} => proc[p].pc = "serving"
        /\ link[c].state \in {"open", "orphaned", "pending", "abandoned"}
  BY DEF LinkInv, ServerHolds, ServerHas
<1>2. ASSUME NEW pc \in MainStates \ {"accepting", "serving"}, Goto(p, pc), ~Listening(p),
             UNCHANGED <<link, toServer, toClient, current, receiver>>
      PROVE  Leaves
  <2>1. CloseServerEnd({})
    BY <1>0, <1>2 DEF CloseServerEnd
  <2>2. proc' = [proc EXCEPT ![p].pc = pc]
    BY <1>2 DEF Goto
  <2>3. ServerLeaves(p, {}, pc)
    BY <1>0, <1>1, <1>2, <2>1, <2>2 DEF ServerLeaves, InLoop, ProcType
  <2> QED BY <2>3
<1>3. CASE ProcessesGone({p})
  <2> DEFINE cs == {c \in Conns : link[c].server \in {p}}
  <2>1. ServerLeaves(p, cs, "none")
    BY <1>0, <1>3 DEF ServerLeaves, ProcessesGone, InLoop, NoProcess, ServerStep
  <2> QED BY <2>1 DEF MainStates
<1>4. CASE AcquireMutex(p)
  <2>1. CASE DuplicateFound(proc[p].id)
    BY <1>3, <1>4, <2>1 DEF AcquireMutex
  <2>2. CASE ~DuplicateFound(proc[p].id)
    BY <1>2, <1>4, <2>2 DEF AcquireMutex, Listening, MainStates, pipeVars, ServerStep
  <2> QED BY <2>1, <2>2
<1>5. CASE OpenListener(p) /\ PipeInUse(proc[p].id)
  BY <1>2, <1>5 DEF OpenListener, Listening, MainStates, pipeVars, ServerStep
<1>6. ASSUME NEW c \in Conns, NEW pc \in {"accepting", "stopping"},
             proc[p].pc = "serving", c \in ServedBy(p),
             LeaveConnection(p, c), Goto(p, pc),
             link[c].state = "open" => pc = "stopping"
      PROVE  ServerLeaves(p, {c}, pc)
  <2>1. \A d \in Conns \ {c} : ~(ServerHas(link[d]) /\ link[d].server = p
                                   /\ link[d].state \in {"open", "orphaned"})
    BY <1>6 DEF LinkInv, ServesOne, ServedBy
  <2>2. link[c].server = p
    BY <1>6 DEF ServedBy
  <2>3. proc' = [proc EXCEPT ![p].pc = pc]
    BY <1>6 DEF Goto
  <2>4. \A q \in Pids \ {p} : current'[q] = current[q]
    BY <1>0, <1>6 DEF LeaveConnection, ClearedCurrent
  <2>5. CloseServerEnd({c}) /\ UNCHANGED receiver
    BY <1>6 DEF LeaveConnection, ServerStep
  <2>6. proc'[p].pc = pc /\ proc'[p].id = proc[p].id /\ \A q \in Pids \ {p} : proc'[q] = proc[q]
    BY <1>0, <2>3 DEF ProcType
  <2>7. \A d \in Conns \ {c} : (ServerHas(link[d]) /\ link[d].server = p) =>
          /\ pc \in {"accepting", "serving", "stopping"}
          /\ link[d].state \in {"pending", "abandoned"}
    BY <1>1, <2>1
  <2> QED BY <1>6, <2>2, <2>4, <2>5, <2>6, <2>7 DEF ServerLeaves, InLoop
<1>7. CASE ConnectionStep(p)
  <2> PICK c \in Conns : \/ AcceptAbandoned(p, c) \/ ReceiveHello(p, c)
                         \/ ReceiveStop(p, c) \/ ReceiveEof(p, c)
    BY <1>7 DEF ConnectionStep
  <2>1. CASE AcceptAbandoned(p, c)
    <3>1. PICK pc \in {"accepting", "stopping"} : Goto(p, pc)
      <4>1. [proc EXCEPT ![p].pc = "accepting"] = proc
        BY <1>0, <2>1 DEF AcceptAbandoned, ProcType
      <4> QED BY <2>1, <4>1 DEF AcceptAbandoned, Goto
    <3>2. proc' = [proc EXCEPT ![p].pc = pc]
      BY <3>1 DEF Goto
    <3>3. proc'[p].pc = pc /\ proc'[p].id = proc[p].id
            /\ \A q \in Pids \ {p} : proc'[q] = proc[q]
      BY <1>0, <3>2 DEF ProcType
    <3>4. ServerLeaves(p, {c}, pc)
      BY <1>1, <2>1, <3>3 DEF AcceptAbandoned, ServerLeaves, InLoop, ServerStep
    <3> QED BY <3>4 DEF MainStates
  <2>2. CASE ReceiveHello(p, c)
    <3>1. CASE link[c].state = "open"
      BY <2>2, <3>1 DEF ReceiveHello, LinksRest, ServerStep, Closing
    <3>2. CASE link[c].state # "open"
      BY <1>6, <2>2, <3>2 DEF ReceiveHello, MainStates
    <3> QED BY <3>1, <3>2
  <2>3. CASE ReceiveStop(p, c)
    BY <1>6, <2>3 DEF ReceiveStop, MainStates
  <2>4. CASE ReceiveEof(p, c)
    BY <1>6, <2>4 DEF ReceiveEof, MainStates
  <2> QED BY <2>1, <2>2, <2>3, <2>4
<1>8. CASE CloseListener(p)
  <2>1. WaitingOn(p) \subseteq Conns
    BY DEF WaitingOn
  <2>2. \A c \in Conns \ WaitingOn(p) : ~(ServerHas(link[c]) /\ link[c].server = p)
    BY <1>1, <1>8 DEF CloseListener, WaitingOn
  <2>3. \A c \in WaitingOn(p) : link[c].server = p /\ link[c].state # "open"
    BY DEF WaitingOn
  <2>4. proc' = [proc EXCEPT ![p].pc = "closed"]
    BY <1>8 DEF CloseListener, Goto
  <2>5. ServerLeaves(p, WaitingOn(p), "closed")
    BY <1>0, <1>8, <2>2, <2>3, <2>4
       DEF CloseListener, ServerLeaves, InLoop, ServerStep, ProcType
  <2> QED BY <2>1, <2>5 DEF MainStates
<1>9. CASE ReleaseMutex(p)
  BY <1>2, <1>9 DEF ReleaseMutex, Listening, MainStates, pipeVars, ServerStep
<1> QED BY <1>3, <1>4, <1>5, <1>7, <1>8, <1>9 DEF ServerStep

\* A process that is spawned had no links, and is not in its loop yet.
LEMMA SpawnKeeps ==
  ASSUME TypeInv, LinkInv, NEW p \in Pids, NEW i \in Ids, SpawnProcess(p, i),
         UNCHANGED receiver
  PROVE  LinkInv'
<1>1. /\ proc' = [proc EXCEPT ![p] = [id |-> i, pc |-> "spawned"]]
      /\ proc \in [Pids -> ProcType] /\ proc[p].pc = "none"
      /\ UNCHANGED <<link, current, receiver>>
  BY LinkTypes DEF SpawnProcess, Alive, pipeVars
<1>2. \A q \in Pids : proc'[q].pc = proc[q].pc \/ proc'[q].pc = "spawned"
  BY <1>1
<1>3. \A q \in Pids : q # p => proc'[q] = proc[q]
  BY <1>1
<1>4. ServerHolds'
  <2> SUFFICES ASSUME NEW c \in Conns, ServerHas(link[c])
               PROVE  link[c].server \in Pids /\ link[c].server # p
    BY <1>1, <1>3 DEF LinkInv, ServerHolds, Listening
  <2> QED BY <1>1 DEF LinkInv, ServerHolds, Listening
<1>5. ServesOne' /\ ClosingIsBroken'
  BY <1>1 DEF LinkInv, ServesOne, ServedBy, ClosingIsBroken, Closing
<1>6. ServedIsCurrent'
  BY <1>1, <1>2 DEF LinkInv, ServedIsCurrent, ServedBy
<1>7. BrokenBlocks'
  BY <1>1, <1>3 DEF LinkInv, BrokenBlocks, InLoop
<1> QED BY <1>4, <1>5, <1>6, <1>7 DEF LinkInv

\* A listener is opened while no instance of its pipe is left.
LEMMA OpenKeeps ==
  ASSUME TypeInv, LinkInv, NEW p \in Pids, OpenListener(p), ~PipeInUse(proc[p].id),
         UNCHANGED receiver
  PROVE  LinkInv'
<1>1. /\ proc' = [proc EXCEPT ![p].pc = "accepting"]
      /\ proc \in [Pids -> ProcType] /\ proc[p].pc = "guarded"
      /\ UNCHANGED <<link, current, receiver>>
  BY LinkTypes DEF OpenListener, Goto, pipeVars
<1>2. proc'[p].pc = "accepting" /\ proc'[p].id = proc[p].id
        /\ \A q \in Pids : q # p => proc'[q] = proc[q]
  BY <1>1 DEF ProcType
<1>3. ServerHolds'
  <2> SUFFICES ASSUME NEW c \in Conns, ServerHas(link[c])
               PROVE  link[c].server \in Pids /\ link[c].server # p
    BY <1>1, <1>2 DEF LinkInv, ServerHolds, Listening
  <2> QED BY <1>1 DEF LinkInv, ServerHolds, Listening
<1>4. ServesOne' /\ ClosingIsBroken'
  BY <1>1 DEF LinkInv, ServesOne, ServedBy, ClosingIsBroken, Closing
<1>5. ServedIsCurrent'
  BY <1>1, <1>2 DEF LinkInv, ServedIsCurrent, ServedBy
<1>6. BrokenBlocks'
  <2> SUFFICES ASSUME NEW c \in Conns, NEW q \in Pids, link[c].state = "broken",
                      proc'[q].id = link[c].id
               PROVE  ~InLoop(proc'[q].pc)
    BY <1>1 DEF BrokenBlocks
  <2>1. link[c].id # proc[p].id
    BY DEF PipeInUse
  <2> QED BY <1>2, <2>1 DEF LinkInv, BrokenBlocks
<1> QED BY <1>3, <1>4, <1>5, <1>6 DEF LinkInv

\* A connection is accepted by a process that serves none.
LEMMA AcceptKeeps ==
  ASSUME TypeInv, LinkInv, NEW p \in Pids, NEW c \in Conns, Accept(p, c),
         UNCHANGED receiver
  PROVE  LinkInv'
<1>1. /\ proc' = [proc EXCEPT ![p].pc = "serving"]
      /\ current' = [current EXCEPT ![p] = c]
      /\ link' = [link EXCEPT ![c].state = "open"]
      /\ proc[p].pc = "accepting" /\ link[c].server = p /\ link[c].state = "pending"
      /\ UNCHANGED receiver
  BY DEF Accept, Goto
<1>2. /\ proc'[p].pc = "serving" /\ proc'[p].id = proc[p].id /\ current'[p] = c
      /\ \A q \in Pids : q # p => proc'[q] = proc[q] /\ current'[q] = current[q]
      /\ link'[c].state = "open" /\ link'[c].server = p /\ link'[c].id = link[c].id
      /\ \A d \in Conns : d # c => link'[d] = link[d]
  BY <1>1, LinkTypes DEF LinkType, ProcType

<1>3. ServerHolds'
  <2> SUFFICES ASSUME NEW d \in Conns, ServerHas(link'[d])
               PROVE  /\ link'[d].server \in Pids
                      /\ proc'[link'[d].server].pc \in {"accepting", "serving", "stopping"}
                      /\ proc'[link'[d].server].id = link'[d].id
                      /\ link'[d].state \in {"open", "orphaned"} =>
                           proc'[link'[d].server].pc = "serving"
    BY DEF ServerHolds, Listening, ServerHas
  <2>1. /\ ServerHas(link[d]) /\ link'[d].server = link[d].server /\ link'[d].id = link[d].id
        /\ d # c => link'[d] = link[d]
    BY <1>1, <1>2 DEF ServerHas
  <2>2. /\ link[d].server \in Pids
        /\ Listening(link[d].server)
        /\ proc[link[d].server].id = link[d].id
        /\ link[d].state \in {"open", "orphaned"} => proc[link[d].server].pc = "serving"
    BY <2>1 DEF LinkInv, ServerHolds
  <2> QED BY <1>2, <2>1, <2>2 DEF Listening
<1>4. \A d \in Conns : ~(link[d].server = p /\ link[d].state \in {"open", "orphaned"})
  BY <1>1 DEF LinkInv, ServerHolds, ServerHas
<1>5. ServedBy(p)' = {c} /\ \A q \in Pids \ {p} : ServedBy(q)' = ServedBy(q)
  BY <1>1, <1>2, <1>4 DEF ServedBy
<1>6. ServesOne'
  BY <1>5 DEF LinkInv, ServesOne
<1>7. ServedIsCurrent'
  <2> SUFFICES ASSUME NEW q \in Pids, NEW d \in ServedBy(q)', proc'[q].pc = "serving",
                      link'[d].state = "open"
               PROVE  current'[q] = d
    BY DEF ServedIsCurrent
  <2>1. CASE q = p
    BY <1>2, <1>5, <2>1
  <2>2. CASE q # p
    <3>1. d \in ServedBy(q) /\ link'[d] = link[d]
      BY <1>1, <1>2, <1>5, <2>2 DEF ServedBy
    <3> QED BY <1>2, <2>2, <3>1 DEF LinkInv, ServedIsCurrent
  <2> QED BY <2>1, <2>2
<1>8. BrokenBlocks'
  <2> SUFFICES ASSUME NEW d \in Conns, NEW q \in Pids, link'[d].state = "broken",
                      proc'[q].id = link'[d].id
               PROVE  ~InLoop(proc'[q].pc)
    BY DEF BrokenBlocks
  <2>1. link'[d] = link[d] /\ proc[q].id = link[d].id /\ ~InLoop(proc[q].pc)
    BY <1>2 DEF LinkInv, BrokenBlocks
  <2> QED BY <1>1, <1>2, <2>1 DEF InLoop
<1>9. ClosingIsBroken'
  BY <1>1, <1>2 DEF LinkInv, ClosingIsBroken, Closing
<1> QED BY <1>3, <1>6, <1>7, <1>8, <1>9 DEF LinkInv

\* A new connection is pending with a process that listens.
LEMMA ConnectKeeps ==
  ASSUME TypeInv, LinkInv, NEW t \in Threads, NEW p \in Pids, NEW c \in Conns,
         ConnectStep(t, p, c)
  PROVE  LinkInv'
<1>1. /\ link' = [link EXCEPT ![c] = [id |-> thread[t].id, server |-> p,
                                       state |-> "pending"]]
      /\ Listening(p) /\ proc[p].id = thread[t].id
      /\ link[c].state = "free" /\ receiver[c] = "none"
      /\ UNCHANGED <<proc, current, receiver>>
  BY DEF ConnectStep, Connect, Connectable, FreeConn, processVars, osVars
<1>2. /\ link'[c].id = thread[t].id /\ link'[c].server = p /\ link'[c].state = "pending"
      /\ \A d \in Conns : d # c => link'[d] = link[d]
  BY <1>1, LinkTypes
<1>3. ServerHolds'
  <2> SUFFICES ASSUME NEW d \in Conns, ServerHas(link'[d])
               PROVE  /\ link'[d].server \in Pids
                      /\ proc[link'[d].server].pc \in {"accepting", "serving", "stopping"}
                      /\ proc[link'[d].server].id = link'[d].id
                      /\ link'[d].state \in {"open", "orphaned"} =>
                           proc[link'[d].server].pc = "serving"
    BY <1>1 DEF ServerHolds, Listening, ServerHas
  <2> QED BY <1>1, <1>2 DEF LinkInv, ServerHolds, Listening
<1>4. \A q \in Pids : ServedBy(q)' = ServedBy(q)
  BY <1>1, <1>2 DEF ServedBy
<1>5. ServesOne'
  BY <1>4 DEF LinkInv, ServesOne
<1>6. ServedIsCurrent'
  <2> SUFFICES ASSUME NEW q \in Pids, NEW d \in ServedBy(q), proc[q].pc = "serving",
                      link'[d].state = "open"
               PROVE  current[q] = d
    BY <1>1, <1>4 DEF ServedIsCurrent
  <2>1. link'[d] = link[d]
    BY <1>2 DEF ServedBy
  <2> QED BY <2>1 DEF LinkInv, ServedIsCurrent
<1>7. BrokenBlocks'
  BY <1>1, <1>2 DEF LinkInv, BrokenBlocks
<1>8. ClosingIsBroken'
  BY <1>1, <1>2 DEF LinkInv, ClosingIsBroken, Closing
<1> QED BY <1>3, <1>5, <1>6, <1>7, <1>8 DEF LinkInv

-----------------------------------------------------------------------------
(***************************************************************************)
(* The theorems.                                                           *)
(***************************************************************************)

LEMMA InitLinks == Init => LinkInv
BY DEF Init, PipeInit, ProcessInit, SupervisorInit, NoReceivers, FreeLink, NoProcess, LinkInv,
       ServerHolds, ServerHas, ServesOne, ServedIsCurrent, ServedBy, BrokenBlocks, InLoop,
       ClosingIsBroken, Closing

LEMMA NextLinks == ASSUME GuardInv, LinkInv, [Next]_vars PROVE LinkInv'
<1>0. TypeInv /\ LinkStep
  BY NextIsLinkStep DEF GuardInv
<1>1. ASSUME NEW p \in Pids, ServerStep(p) PROVE LinkInv'
  <2>0. UNCHANGED receiver
    BY <1>1 DEF ServerStep
  <2>1. CASE \E i \in Ids : SpawnProcess(p, i)
    BY <1>0, <2>0, <2>1, SpawnKeeps
  <2>2. CASE \E c \in Conns : Accept(p, c)
    BY <1>0, <2>0, <2>2, AcceptKeeps
  <2>3. CASE OpenListener(p) /\ ~PipeInUse(proc[p].id)
    BY <1>0, <2>0, <2>3, OpenKeeps
  <2>4. CASE LinksRest \/ \E cs \in SUBSET Conns, pc \in MainStates : ServerLeaves(p, cs, pc)
    BY <1>0, <2>4, RestKeeps, ServerLeavesKeeps
  <2> QED BY <1>1, <2>1, <2>2, <2>3, <2>4, StepLeaves
<1> QED BY <1>0, <1>1, RestKeeps, ClientLeavesKeeps, ConnectKeeps DEF LinkStep

\* A link that is not free belongs to who serves it or waits to be dropped, and its
\* identifier is held up until then, in every reachable state.
THEOREM LinkInvariant == Spec => [](GuardInv /\ LinkInv)
<1>1. GuardInv /\ LinkInv /\ [Next]_vars => LinkInv'
  BY NextLinks
<1> QED BY <1>1, InitLinks, GuardInvariant, PTL DEF Spec

LEMMA OpenIsServed ==
  ASSUME GuardInv, LinkInv, NEW c \in Conns, link[c].state = "open"
  PROVE  /\ link[c].server \in Pids
         /\ c \in ServedBy(link[c].server)
         /\ proc[link[c].server].id = link[c].id
         /\ proc[link[c].server].pc = "serving"
BY DEF LinkInv, ServerHolds, ServerHas, ServedBy

LEMMA LinksHaveOne == GuardInv /\ LinkInv => OneConversation
<1> SUFFICES ASSUME GuardInv, LinkInv, NEW c \in Conns, NEW d \in Conns,
                    link[c].state = "open", link[d].state = "open",
                    link[c].id = link[d].id
             PROVE  c = d
  BY DEF OneConversation
<1>1. link[c].server = link[d].server
  BY OpenIsServed DEF GuardInv, GuardHeld, Guarded, GuardedStates
<1> QED BY <1>1, OpenIsServed DEF LinkInv, ServesOne

LEMMA LinksCloseFirst == GuardInv /\ LinkInv => CloseComesFirst
<1> SUFFICES ASSUME GuardInv, LinkInv, NEW c \in Conns, NEW d \in Conns, Closing(c),
                    link[c].id = link[d].id, link[d].state = "open"
             PROVE  FALSE
  BY DEF CloseComesFirst, Closing
<1>1. link[c].state = "broken"
  BY DEF LinkInv, ClosingIsBroken
<1> QED BY <1>1, OpenIsServed DEF LinkInv, BrokenBlocks, InLoop

\* run() (cli.py:99) and the guard: the conductor never has two established connections
\* to one identifier.
THEOREM OneConversationHolds == Spec => []OneConversation
BY LinkInvariant, LinksHaveOne, PTL

\* _clearConnection (cli.py:140): the connection a process serves stays the one its
\* heartbeat and log threads see.
THEOREM ServedIsCurrentHolds == Spec => []ServedIsCurrent
<1>1. LinkInv => ServedIsCurrent
  BY DEF LinkInv
<1> QED BY <1>1, LinkInvariant, PTL

\* _receiveLoop and the first instance of the pipe (cli.py:86): the end of a connection
\* is handled before the next one to its identifier is established.
THEOREM CloseComesFirstHolds == Spec => []CloseComesFirst
BY LinkInvariant, LinksCloseFirst, PTL

=============================================================================
