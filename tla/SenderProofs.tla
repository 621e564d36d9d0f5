---------------------------- MODULE SenderProofs ----------------------------
(***************************************************************************)
(* Proofs about RtspSender, for every number of workers, every size of the *)
(* queue and every set of faults.  Four invariants, each on the ones       *)
(* before it:                                                              *)
(*   TypeInv    types, and that there is room when the newest packet is put*)
(*   LockInv    what the holder of the lock is doing                       *)
(*   WorkerInv  only the current worker is alive, and what the flags say   *)
(*   OrderInv   the order of the packets on their way                      *)
(***************************************************************************)
EXTENDS RtspSender, SequenceTheorems, TLAPS

QueueInv ==
  /\ main \in {"full", "evicted"} => incoming \in Packet
  /\ main = "evicted" => Len(queue) < QueueSize

TypeInv == TypeOK /\ QueueInv

-----------------------------------------------------------------------------
(***************************************************************************)
(* Types.                                                                  *)
(***************************************************************************)

\* Whatever an action does to the workers keeps their type.
LEMMA NextWorkerType ==
  ASSUME TypeInv, [Next]_vars
  PROVE  worker' \in [Workers -> WorkerType]
<1> USE DEF TypeInv, TypeOK
<1>1. /\ worker \in [Workers -> WorkerType]
      /\ \A p \in Workers : worker[p] \in WorkerType
      /\ NoPacket \in Packet \cup {NoPacket}
  OBVIOUS
<1>2. NoWorker \in WorkerType /\ [NoWorker EXCEPT !.pc = "waiting"] \in WorkerType
  BY DEF NoWorker, WorkerType, WorkerStates
<1>3. CASE UNCHANGED worker
  BY <1>1, <1>3
<1>4. CASE StopWorker \/ MonitorChecks
  <2>1. \A p \in Workers : [worker[p] EXCEPT !.stop = TRUE] \in WorkerType
    BY <1>1 DEF WorkerType
  <2>2. UNCHANGED worker \/ (process \in Workers /\ RequestWorkerStop)
    BY <1>4 DEF StopWorker, MonitorChecks, Lost
  <2> QED BY <1>1, <2>1, <2>2 DEF RequestWorkerStop
<1>5. CASE StopJoins \/ MonitorJoins
  BY <1>1, <1>2, <1>5 DEF StopJoins, MonitorJoins, JoinWorker
<1>6. ASSUME NEW p \in Workers, MonitorStarts(p)
      PROVE  worker' \in [Workers -> WorkerType]
  BY <1>1, <1>2, <1>6 DEF MonitorStarts, StartProcess
<1>7. ASSUME NEW p \in Workers, WorkerStep(p) \/ WorkerFault(p)
      PROVE  worker' \in [Workers -> WorkerType]
  <2>1. CASE WorkerGone(p)
    BY <1>1, <1>2, <2>1 DEF WorkerGone
  <2>2. CASE Take(p)
    <3>1. Head(queue) \in Packet
      BY <2>2 DEF Take
    <3>2. [worker[p] EXCEPT !.pc = "sending", !.hand = Head(queue)] \in WorkerType
      BY <1>1, <3>1 DEF WorkerType, WorkerStates
    <3> QED BY <1>1, <2>2, <3>2 DEF Take
  <2>3. CASE Discard(p)
    <3>1. [worker[p] EXCEPT !.pc = "waiting", !.hand = NoPacket] \in WorkerType
      BY <1>1 DEF WorkerType, WorkerStates
    <3> QED BY <1>1, <2>3, <3>1 DEF Discard
  <2>4. CASE Mux(p)
    <3>1. [worker[p] EXCEPT !.pc = "waiting", !.hand = NoPacket, !.awaitingKey = FALSE,
                            !.connected = TRUE, !.muxed = TRUE] \in WorkerType
      BY <1>1 DEF WorkerType, WorkerStates
    <3> QED BY <1>1, <2>4, <3>1 DEF Mux
  <2>5. CASE MuxFails(p)
    <3>1. [worker[p] EXCEPT !.pc = "backoff", !.connected = FALSE,
                            !.awaitingKey = TRUE] \in WorkerType
      BY <1>1 DEF WorkerType, WorkerStates
    <3> QED BY <1>1, <2>5, <3>1 DEF MuxFails
  <2>6. \A s \in WorkerStates : [worker[p] EXCEPT !.pc = s] \in WorkerType
    BY <1>1 DEF WorkerType
  <2>7. CASE Retry(p) \/ MuxHangs(p)
    BY <1>1, <2>1, <2>6, <2>7 DEF Retry, MuxHangs, WorkerStates
  <2> QED
    BY <1>7, <2>1, <2>2, <2>3, <2>4, <2>5, <2>7
       DEF WorkerStep, WorkerFault, Leave, WorkerCrashes
<1> QED
  BY <1>3, <1>4, <1>5, <1>6, <1>7
     DEF Next, MainStep, MonitorStep, ReaderStep, Submit, Stop, Evict, EvictMisses,
         PutNewest, StopLocks, MonitorWakes, MonitorAsks, HeartbeatExpires, ReadFlags,
         ReadNone, ReadAlive, readerKept, vars

\* Whatever an action does to the queue keeps its type and its bound.
LEMMA NextQueueType ==
  ASSUME TypeInv, [Next]_vars
  PROVE  queue' \in Seq(Packet) /\ Len(queue') <= QueueSize /\ QueueInv'
<1> USE SenderAssumption DEF TypeInv, TypeOK, QueueInv
<1>1. ASSUME NEW k \in BOOLEAN, Submit(k)
      PROVE  queue' \in Seq(Packet) /\ Len(queue') <= QueueSize /\ QueueInv'
  <2>1. incoming' \in Packet
    BY <1>1 DEF Submit, Packet
  <2>2. \/ queue' = Append(queue, incoming') /\ Len(queue) < QueueSize /\ main' = "running"
        \/ queue' = queue /\ main' = "full"
    BY <1>1 DEF Submit
  <2> QED BY <2>1, <2>2
<1>2. CASE Evict
  <2>1. queue # << >> => Tail(queue) \in Seq(Packet) /\ Len(Tail(queue)) = Len(queue) - 1
    OBVIOUS
  <2> QED BY <1>2, <2>1 DEF Evict, inputVars
<1>3. CASE PutNewest
  BY <1>3 DEF PutNewest, inputVars
<1>4. ASSUME UNCHANGED incoming, queue' = queue \/ (queue # << >> /\ queue' = Tail(queue)),
             main' = main \/ main' \notin {"full", "evicted"}
      PROVE  queue' \in Seq(Packet) /\ Len(queue') <= QueueSize /\ QueueInv'
  <2>1. queue # << >> => Tail(queue) \in Seq(Packet) /\ Len(Tail(queue)) = Len(queue) - 1
    OBVIOUS
  <2> QED BY <1>4, <2>1
<1>5. CASE UNCHANGED vars
  BY <1>4, <1>5 DEF vars, inputVars, parentVars
<1>6. CASE Stop \/ EvictMisses \/ StopLocks \/ StopWorker \/ StopJoins
  BY <1>4, <1>6 DEF Stop, EvictMisses, StopLocks, StopWorker, StopJoins, inputVars
<1>7. CASE MonitorStep
  BY <1>4, <1>7 DEF MonitorStep, MonitorWakes, MonitorChecks, MonitorJoins, MonitorAsks,
                    MonitorStarts, inputVars
<1>8. ASSUME NEW p \in Workers, WorkerStep(p) \/ WorkerFault(p)
      PROVE  queue' \in Seq(Packet) /\ Len(queue') <= QueueSize /\ QueueInv'
  BY <1>4, <1>8 DEF WorkerStep, WorkerFault, Take, Leave, Discard, Mux, Retry, MuxFails,
                    MuxHangs, WorkerCrashes, inputVars, parentVars
<1>9. CASE HeartbeatExpires \/ ReaderStep
  BY <1>4, <1>9 DEF HeartbeatExpires, ReaderStep, ReadFlags, ReadNone, ReadAlive,
                    readerKept, inputVars, parentVars
<1> QED
  BY <1>1, <1>2, <1>3, <1>5, <1>6, <1>7, <1>8, <1>9 DEF Next, MainStep

\* A step of any of the actions leaves the types, and room in the queue.
LEMMA NextType ==
  ASSUME TypeInv, [Next]_vars
  PROVE  TypeInv'
<1>1. /\ worker' \in [Workers -> WorkerType]
      /\ queue' \in Seq(Packet) /\ Len(queue') <= QueueSize /\ QueueInv'
  BY NextWorkerType, NextQueueType
<1> USE SenderAssumption DEF TypeInv, TypeOK
<1>2. ASSUME NEW k \in BOOLEAN, Submit(k)
      PROVE  TypeInv'
  <2>1. submitted' \in 0 .. MaxPackets /\ incoming' \in Packet
    BY <1>2 DEF Submit, Packet
  <2> QED BY <1>1, <1>2, <2>1 DEF Submit, flagVars
<1>3. CASE Stop \/ Evict \/ EvictMisses \/ PutNewest
  <2>1. /\ main' \in {"running", "evicted", "stopCalled"}
        /\ monitorStop' \in BOOLEAN
        /\ UNCHANGED <<inputVars, monitor, lock, process, flagVars, last, reader>>
    BY <1>3 DEF Stop, Evict, EvictMisses, PutNewest
  <2> QED BY <1>1, <2>1 DEF inputVars, flagVars
<1>4. CASE StopLocks \/ StopWorker \/ StopJoins
  BY <1>1, <1>4 DEF StopLocks, StopWorker, StopJoins, JoinWorker, inputVars, flagVars
<1>5. CASE MonitorStep
  <2>1. /\ UNCHANGED <<inputVars, main, monitorStop, hasSuccessfulMux, last, reader>>
        /\ heartbeat' \in {heartbeat, "fresh"} /\ awaitingMux' \in BOOLEAN
        /\ process' \in Workers \cup {process, None}
    BY <1>5 DEF MonitorStep, MonitorWakes, MonitorChecks, MonitorJoins, MonitorAsks,
                MonitorStarts, JoinWorker, StartProcess, flagVars
  <2>2. /\ monitor' \in {"asleep", "woken", "joining", "reaped", "checked", "ended"}
        /\ lock' \in {lock, None, "monitor"}
    BY <1>5 DEF MonitorStep, MonitorWakes, MonitorChecks, MonitorJoins, MonitorAsks,
                MonitorStarts
  <2> QED BY <1>1, <2>1, <2>2 DEF inputVars
<1>6. ASSUME NEW p \in Workers, WorkerStep(p) \/ WorkerFault(p)
      PROVE  TypeInv'
  <2>1. worker[p].hand \in Packet \cup {NoPacket}
    BY DEF WorkerType
  <2>2. UNCHANGED <<inputVars, parentVars, reader>>
    BY <1>6 DEF WorkerStep, WorkerFault, Take, Leave, Discard, Mux, Retry, MuxFails,
                MuxHangs, WorkerCrashes
  <2>3. CASE Mux(p)
    <3>1. /\ last' \in Packet \cup {NoPacket} /\ heartbeat' \in {"fresh", "stale"}
          /\ hasSuccessfulMux' \in BOOLEAN /\ awaitingMux' \in BOOLEAN
      BY <2>1, <2>3 DEF Mux
    <3> QED BY <1>1, <2>2, <3>1 DEF inputVars, parentVars
  <2>4. CASE ~Mux(p)
    <3>1. UNCHANGED <<flagVars, last>>
      BY <1>6, <2>4 DEF WorkerStep, WorkerFault, Take, Leave, Discard, Retry, MuxFails,
                        MuxHangs, WorkerCrashes
    <3> QED BY <1>1, <2>2, <3>1 DEF inputVars, parentVars, flagVars
  <2> QED BY <2>3, <2>4
<1>7. CASE HeartbeatExpires \/ ReaderStep
  <2>1. /\ UNCHANGED <<inputVars, parentVars, hasSuccessfulMux, awaitingMux, last>>
        /\ heartbeat' \in {heartbeat, "stale"}
        /\ reader' \in {reader, "idle", "checkNone", "checkAlive", "dead"}
    BY <1>7 DEF HeartbeatExpires, ReaderStep, ReadFlags, ReadNone, ReadAlive, readerKept,
                flagVars
  <2> QED BY <1>1, <2>1 DEF inputVars, parentVars
<1>8. CASE UNCHANGED vars
  BY <1>1, <1>8 DEF vars, inputVars, parentVars, flagVars
<1> QED
  BY <1>2, <1>3, <1>4, <1>5, <1>6, <1>7, <1>8 DEF Next, MainStep

LEMMA InitType == Init => TypeInv
<1> SUFFICES ASSUME Init PROVE TypeInv
  OBVIOUS
<1>1. worker \in [Workers -> WorkerType]
  BY DEF Init, NoWorker, WorkerType, WorkerStates
<1>2. /\ queue \in Seq(Packet) /\ Len(queue) <= QueueSize
      /\ submitted \in 0 .. MaxPackets
  BY SenderAssumption DEF Init
<1>3. /\ monitorStop \in BOOLEAN
      /\ hasSuccessfulMux \in BOOLEAN /\ awaitingMux \in BOOLEAN
  BY DEF Init
<1> QED
  BY <1>1, <1>2, <1>3 DEF Init, TypeInv, TypeOK, QueueInv

\* Every variable of the sender keeps its type; in particular the queue never
\* holds more than QueueSize packets, over evictions and restarts.
THEOREM TypeCorrect == Spec => []TypeOK
<1>1. TypeInv /\ [Next]_vars => TypeInv'
  BY NextType
<1>2. TypeInv => TypeOK
  BY DEF TypeInv
<1> QED
  BY <1>1, <1>2, InitType, PTL DEF Spec

-----------------------------------------------------------------------------
(***************************************************************************)
(* The lock.  stop() and the monitor hold it while they wait for a worker, *)
(* so that the process they wait for stays the same; and once stop() has   *)
(* it, the event that keeps the monitor from restarting is set.            *)
(***************************************************************************)

LockInv ==
  /\ lock = "monitor" <=> monitor \in {"joining", "reaped", "checked"}
  /\ lock = "main" <=> main \in {"stopping", "joining"}
  /\ monitor = "joining" => process # None
  /\ monitor \in {"reaped", "checked"} => process = None
  /\ main = "joining" => process # None
  /\ main \in {"stopCalled", "stopping", "joining", "stopped"} => monitorStop
  /\ main = "stopped" => process = None /\ monitor # "checked"

LEMMA NextLock ==
  ASSUME TypeInv, LockInv, [Next]_vars
  PROVE  LockInv'
<1> USE SenderAssumption DEF LockInv, TypeInv, TypeOK
<1>1. ASSUME NEW k \in BOOLEAN, Submit(k)
      PROVE  LockInv'
  BY <1>1 DEF Submit
<1>2. CASE Stop \/ Evict \/ EvictMisses \/ PutNewest
  BY <1>2 DEF Stop, Evict, EvictMisses, PutNewest
<1>3. CASE StopLocks
  BY <1>3 DEF StopLocks
<1>4. CASE StopWorker
  BY <1>4 DEF StopWorker
<1>5. CASE StopJoins
  BY <1>5 DEF StopJoins, JoinWorker
<1>6. CASE MonitorWakes \/ MonitorAsks
  BY <1>6 DEF MonitorWakes, MonitorAsks
<1>7. CASE MonitorChecks
  BY <1>7 DEF MonitorChecks, Lost
<1>8. CASE MonitorJoins
  BY <1>8 DEF MonitorJoins, JoinWorker
<1>9. ASSUME NEW p \in Workers, MonitorStarts(p)
      PROVE  LockInv'
  BY <1>9 DEF MonitorStarts, StartProcess
<1>10. CASE UNCHANGED parentVars
  BY <1>10 DEF parentVars
<1>11. ASSUME NEW p \in Workers, WorkerStep(p) \/ WorkerFault(p)
       PROVE  UNCHANGED parentVars
  BY <1>11 DEF WorkerStep, WorkerFault, Take, Leave, Discard, Mux, Retry, MuxFails,
               MuxHangs, WorkerCrashes
<1>12. CASE HeartbeatExpires \/ ReaderStep \/ UNCHANGED vars
  BY <1>10, <1>12 DEF HeartbeatExpires, ReaderStep, ReadFlags, ReadNone, ReadAlive,
                      readerKept, vars
<1> QED
  BY <1>1, <1>2, <1>3, <1>4, <1>5, <1>6, <1>7, <1>8, <1>9, <1>10, <1>11, <1>12
     DEF Next, MainStep, MonitorStep

-----------------------------------------------------------------------------
(***************************************************************************)
(* The workers.  _process is the only one alive; a connection that has     *)
(* carried a packet is the one of a live worker, began with a keyframe and *)
(* is what the flags speak about.                                          *)
(***************************************************************************)

WorkerInv ==
  \A p \in Workers :
    /\ Alive(p) => process = p
    /\ worker[p].connected => Alive(p)
    /\ worker[p].connected \/ worker[p].awaitingKey
    /\ Alive(p) /\ ~awaitingMux => worker[p].muxed

\* What the actions do to the workers, in the four ways WorkerInv tells apart: the
\* current worker is removed, a new one is put in the place of none, a packet is
\* sent, or a worker changes in a way that matters to none of the conjuncts.
LEMMA NextWorker ==
  ASSUME TypeInv, LockInv, WorkerInv, [Next]_vars
  PROVE  WorkerInv'
<1> USE SenderAssumption DEF WorkerInv, Alive, TypeInv, TypeOK
<1>0. /\ NoWorker.pc = "none" /\ ~NoWorker.connected /\ NoWorker.awaitingKey
      /\ \A p \in Workers : worker[p] \in WorkerType
  BY DEF NoWorker
<1>1. ASSUME UNCHANGED <<worker, process, awaitingMux>>
      PROVE  WorkerInv'
  BY <1>1
<1>2. ASSUME NEW p \in Workers, WorkerGone(p), UNCHANGED awaitingMux,
             process' = process \/ (p = process /\ process' = None)
      PROVE  WorkerInv'
  BY <1>0, <1>2 DEF WorkerGone
<1>3. CASE StopJoins \/ MonitorJoins
  BY <1>2, <1>3 DEF StopJoins, MonitorJoins, JoinWorker, WorkerGone, LockInv, flagVars
<1>4. ASSUME NEW p \in Workers, MonitorStarts(p)
      PROVE  WorkerInv'
  <2>1. process = None /\ \A q \in Workers : ~Alive(q)
    BY <1>4 DEF MonitorStarts, LockInv
  <2>2. /\ [NoWorker EXCEPT !.pc = "waiting"].pc = "waiting"
        /\ ~[NoWorker EXCEPT !.pc = "waiting"].connected
        /\ [NoWorker EXCEPT !.pc = "waiting"].awaitingKey
    BY DEF NoWorker
  <2> QED BY <1>4, <2>1, <2>2 DEF MonitorStarts, StartProcess
<1>5. ASSUME NEW p \in Workers, process = p, RequestWorkerStop, UNCHANGED process,
             UNCHANGED awaitingMux
      PROVE  WorkerInv'
  BY <1>0, <1>5 DEF RequestWorkerStop, WorkerType
<1>6. CASE StopWorker \/ MonitorChecks
  BY <1>1, <1>5, <1>6 DEF StopWorker, MonitorChecks, Lost, flagVars
<1>7. ASSUME NEW p \in Workers, WorkerStep(p) \/ WorkerFault(p)
      PROVE  WorkerInv'
  <2>1. CASE WorkerGone(p) /\ UNCHANGED <<awaitingMux, process>>
    BY <1>2, <2>1
  <2>2. CASE Leave(p) \/ WorkerCrashes(p)
    BY <2>1, <2>2 DEF Leave, WorkerCrashes, parentVars, flagVars
  <2>3. CASE Take(p)
    BY <1>0, <2>3 DEF Take, parentVars, flagVars, WorkerType
  <2>4. CASE Discard(p)
    BY <1>0, <2>4 DEF Discard, parentVars, flagVars, WorkerType
  <2>5. CASE Mux(p)
    BY <1>0, <2>5 DEF Mux, Sendable, parentVars, WorkerType
  <2>6. CASE MuxFails(p)
    BY <1>0, <2>6 DEF MuxFails, Sendable, parentVars, flagVars, WorkerType
  <2>7. CASE MuxHangs(p)
    BY <1>0, <2>7 DEF MuxHangs, Sendable, parentVars, flagVars, WorkerType
  <2>8. CASE Retry(p)
    BY <1>0, <2>1, <2>8 DEF Retry, parentVars, flagVars, WorkerType
  <2> QED
    BY <1>7, <2>2, <2>3, <2>4, <2>5, <2>6, <2>7, <2>8 DEF WorkerStep, WorkerFault
<1>8. ASSUME NEW k \in BOOLEAN, Submit(k)
      PROVE  WorkerInv'
  BY <1>1, <1>8 DEF Submit, flagVars
<1>9. CASE Stop \/ Evict \/ EvictMisses \/ PutNewest \/ StopLocks
  BY <1>1, <1>9 DEF Stop, Evict, EvictMisses, PutNewest, StopLocks, flagVars
<1>10. CASE MonitorWakes \/ MonitorAsks
  BY <1>1, <1>10 DEF MonitorWakes, MonitorAsks, flagVars
<1>11. CASE HeartbeatExpires \/ ReaderStep \/ UNCHANGED vars
  BY <1>1, <1>11 DEF HeartbeatExpires, ReaderStep, ReadFlags, ReadNone, ReadAlive,
                     readerKept, vars, parentVars, flagVars
<1> QED
  BY <1>3, <1>4, <1>6, <1>7, <1>8, <1>9, <1>10, <1>11 DEF Next, MainStep, MonitorStep

LEMMA InitWorker == Init => LockInv /\ WorkerInv
BY SenderAssumption DEF Init, LockInv, WorkerInv, Alive, NoWorker

SenderInv == TypeInv /\ LockInv /\ WorkerInv

\* The three invariants together are inductive.
THEOREM SenderInvariant == Spec => []SenderInv
<1>1. SenderInv /\ [Next]_vars => SenderInv'
  BY NextType, NextLock, NextWorker DEF SenderInv
<1>2. Init => SenderInv
  BY InitType, InitWorker DEF SenderInv
<1> QED
  BY <1>1, <1>2, PTL DEF Spec

\* No two workers are alive at once, however the monitor, stop() and the failures
\* of the workers interleave.
THEOREM OneWorkerAtATime == Spec => []OneWorker
<1>1. SenderInv => OneWorker
  BY DEF SenderInv, WorkerInv, OneWorker
<1> QED
  BY <1>1, SenderInvariant, PTL

\* After stop() has returned there is no worker, and the monitor, wherever it is,
\* does not start one.
THEOREM StoppedStays == Spec => []StoppedForGood
<1>1. SenderInv => StoppedForGood
  BY SenderAssumption DEF SenderInv, LockInv, WorkerInv, StoppedForGood
<1> QED
  BY <1>1, SenderInvariant, PTL

\* Whenever the flags say connected, the worker that is running has sent a packet.
THEOREM ConnectedCorrect == Spec => []ConnectedIsEarned
<1>1. SenderInv => ConnectedIsEarned
  BY DEF SenderInv, TypeInv, TypeOK, WorkerInv, ConnectedIsEarned, Connected
<1> QED
  BY <1>1, SenderInvariant, PTL

-----------------------------------------------------------------------------
(***************************************************************************)
(* The order of the packets.  They are on their way in a chain: the last   *)
(* one the server received, the one a worker holds, the ones in the queue, *)
(* the one submit() is about to put; each is newer than those before it.   *)
(***************************************************************************)

Newer(m, n) == n > m \/ (m = MaxPackets /\ n = MaxPackets)

Holds(p) == worker[p].pc \in {"sending", "backoff", "hung"}

QueueOrder ==
  /\ last.n <= submitted
  /\ \A i \in 1 .. Len(queue) : Newer(last.n, queue[i].n) /\ queue[i].n <= submitted
  /\ \A i, j \in 1 .. Len(queue) : i < j => Newer(queue[i].n, queue[j].n)

HandOrder ==
  \A p \in Workers : Holds(p) =>
    /\ worker[p].hand \in Packet
    /\ Newer(last.n, worker[p].hand.n) /\ worker[p].hand.n <= submitted
    /\ \A i \in 1 .. Len(queue) : Newer(worker[p].hand.n, queue[i].n)

IncomingOrder ==
  main \in {"full", "evicted"} =>
    /\ incoming.n = submitted
    /\ Newer(last.n, incoming.n)
    /\ \A i \in 1 .. Len(queue) : Newer(queue[i].n, incoming.n)
    /\ \A p \in Workers : Holds(p) => Newer(worker[p].hand.n, incoming.n)

OrderInv == QueueOrder /\ HandOrder /\ IncomingOrder

\* The packets of a queue without its first one.
LEMMA TailOf ==
  ASSUME NEW q \in Seq(Packet), q # << >>
  PROVE  /\ Head(q) = q[1] /\ 1 \in 1 .. Len(q)
         /\ Len(Tail(q)) = Len(q) - 1
         /\ \A i \in 1 .. Len(Tail(q)) : i + 1 \in 1 .. Len(q) /\ Tail(q)[i] = q[i + 1]
OBVIOUS

\* The numbers that are compared.
LEMMA Numbers ==
  ASSUME TypeInv
  PROVE  /\ submitted \in Nat /\ MaxPackets \in Nat /\ last.n \in Nat
         /\ \A e \in Packet : e.n \in Nat /\ e.n >= 1 /\ e.n <= MaxPackets
         /\ \A i \in 1 .. Len(queue) : queue[i] \in Packet
<1>1. \A e \in Packet : e.n \in Nat /\ e.n >= 1 /\ e.n <= MaxPackets
  BY SenderAssumption DEF Packet
<1>2. last \in Packet \/ last.n = 0
  BY DEF TypeInv, TypeOK, NoPacket
<1>3. queue \in Seq(Packet) /\ submitted \in 0 .. MaxPackets
  BY DEF TypeInv, TypeOK
<1> QED BY <1>1, <1>2, <1>3, SenderAssumption

\* An action that makes no packet and moves none but perhaps drops some keeps the
\* order of those that are left.
LEMMA FewerPackets ==
  ASSUME TypeInv, OrderInv, UNCHANGED <<submitted, incoming, last>>,
         queue' = queue \/ (queue # << >> /\ queue' = Tail(queue)),
         main' = main \/ main' \notin {"full", "evicted"} \/ main = "full",
         \A p \in Workers : Holds(p)' => Holds(p) /\ worker'[p].hand = worker[p].hand
  PROVE  OrderInv'
<1> USE DEF OrderInv, QueueOrder, HandOrder, IncomingOrder
<1>1. CASE queue' = queue
  BY <1>1
<1>2. CASE queue # << >> /\ queue' = Tail(queue)
  <2>1. /\ Len(queue') = Len(queue) - 1 /\ Len(queue) \in Nat
        /\ \A i \in 1 .. Len(queue') : i + 1 \in 1 .. Len(queue) /\ queue'[i] = queue[i + 1]
    BY <1>2, TailOf DEF TypeInv, TypeOK
  <2>2. \A i, j \in 1 .. Len(queue') : i < j => i + 1 < j + 1
    BY <2>1
  <2>3. QueueOrder'
    BY <2>1, <2>2
  <2>4. HandOrder'
    BY <2>1
  <2>5. IncomingOrder'
    BY <2>1
  <2> QED BY <2>3, <2>4, <2>5
<1> QED BY <1>1, <1>2

LEMMA NextOrder ==
  ASSUME SenderInv, OrderInv, [Next]_vars
  PROVE  OrderInv'
<1> USE SenderAssumption DEF SenderInv
<1>0. /\ queue \in Seq(Packet) /\ worker \in [Workers -> WorkerType]
      /\ \A p \in Workers : worker[p] \in WorkerType
      /\ NoWorker.pc = "none"
  BY DEF TypeInv, TypeOK, NoWorker
<1>1. ASSUME UNCHANGED worker
      PROVE  \A p \in Workers : Holds(p)' => Holds(p) /\ worker'[p].hand = worker[p].hand
  BY <1>1 DEF Holds
<1>2. ASSUME NEW p \in Workers, WorkerGone(p)
      PROVE  \A q \in Workers : Holds(q)' => Holds(q) /\ worker'[q].hand = worker[q].hand
  BY <1>0, <1>2 DEF WorkerGone, Holds
<1>3. ASSUME NEW k \in BOOLEAN, Submit(k)
      PROVE  OrderInv'
  <2>1. /\ submitted' \in Nat /\ submitted' >= submitted
        /\ incoming'.n = submitted' /\ incoming' \in Packet
        /\ \A n \in 0 .. submitted : Newer(n, submitted')
    BY <1>3 DEF Submit, Newer, Packet, TypeInv, TypeOK
  <2>2. UNCHANGED <<worker, last>> /\ main = "running"
    BY <1>3 DEF Submit
  <2>3. /\ last.n \in 0 .. submitted
        /\ \A i \in 1 .. Len(queue) : queue[i].n \in 0 .. submitted
        /\ \A p \in Workers : Holds(p) => worker[p].hand.n \in 0 .. submitted
    BY Numbers DEF OrderInv, QueueOrder, HandOrder
  <2>4. /\ Newer(last.n, submitted') /\ last.n <= submitted'
        /\ \A i \in 1 .. Len(queue) : Newer(queue[i].n, submitted') /\ queue[i].n <= submitted'
        /\ \A p \in Workers : Holds(p) => /\ Newer(worker[p].hand.n, submitted')
                                         /\ worker[p].hand.n <= submitted'
    BY <2>1, <2>3, Numbers
  <2>5. CASE queue' = Append(queue, incoming') /\ main' = "running"
    <3>1. /\ Len(queue') = Len(queue) + 1 /\ Len(queue) \in Nat
          /\ queue'[Len(queue) + 1] = incoming'
          /\ \A i \in 1 .. Len(queue) : queue'[i] = queue[i]
          /\ \A i \in 1 .. Len(queue') : i \in 1 .. Len(queue) \/ i = Len(queue) + 1
      BY <1>0, <2>1, <2>5
    <3>2. QueueOrder'
      BY <2>1, <2>2, <2>4, <3>1 DEF OrderInv, QueueOrder
    <3>3. HandOrder'
      BY <2>1, <2>2, <2>4, <3>1 DEF OrderInv, HandOrder, Holds
    <3> QED BY <2>5, <3>2, <3>3 DEF OrderInv, IncomingOrder
  <2>6. CASE queue' = queue /\ main' = "full"
    <3>1. QueueOrder'
      BY <2>1, <2>2, <2>3, <2>6, Numbers DEF OrderInv, QueueOrder
    <3>2. HandOrder'
      BY <2>1, <2>2, <2>3, <2>6, Numbers DEF OrderInv, HandOrder, Holds
    <3>3. IncomingOrder'
      BY <2>1, <2>2, <2>3, <2>6 DEF IncomingOrder, Holds
    <3> QED BY <3>1, <3>2, <3>3 DEF OrderInv
  <2> QED BY <1>3, <2>5, <2>6 DEF Submit
<1>4. CASE PutNewest
  <2>1. /\ main = "evicted" /\ main' = "running"
        /\ queue' = Append(queue, incoming)
        /\ UNCHANGED <<submitted, incoming, worker, last>>
    BY <1>4 DEF PutNewest, inputVars
  <2>2. incoming \in Packet
    BY <2>1 DEF TypeInv, QueueInv
  <2>3. /\ Len(queue') = Len(queue) + 1 /\ Len(queue) \in Nat
        /\ queue'[Len(queue) + 1] = incoming
        /\ \A i \in 1 .. Len(queue) : queue'[i] = queue[i]
    BY <1>0, <2>1, <2>2
  <2>4. QueueOrder'
    BY <2>1, <2>3, Numbers DEF OrderInv, QueueOrder, IncomingOrder
  <2>5. HandOrder'
    BY <2>1, <2>3 DEF OrderInv, HandOrder, IncomingOrder, Holds
  <2> QED BY <2>1, <2>4, <2>5 DEF OrderInv, IncomingOrder
<1>5. ASSUME NEW p \in Workers, Take(p)
      PROVE  OrderInv'
  <2>1. /\ queue # << >> /\ queue' = Tail(queue)
        /\ worker'[p].hand = Head(queue)
        /\ \A q \in Workers : q # p => worker'[q] = worker[q]
        /\ UNCHANGED <<submitted, incoming, main, last>>
    BY <1>0, <1>5 DEF Take, inputVars, parentVars, WorkerType
  <2>2. /\ Head(queue) = queue[1] /\ 1 \in 1 .. Len(queue) /\ Len(queue) \in Nat
        /\ Len(queue') = Len(queue) - 1
        /\ \A i \in 1 .. Len(queue') : i + 1 \in 1 .. Len(queue) /\ queue'[i] = queue[i + 1]
    BY <1>0, <2>1, TailOf
  <2>3. \A i \in 1 .. Len(queue') : 1 < i + 1
    BY <2>2
  <2>4. \A i, j \in 1 .. Len(queue') : i < j => i + 1 < j + 1
    BY <2>2
  <2>5. QueueOrder'
    BY <2>1, <2>2, <2>4 DEF OrderInv, QueueOrder
  <2>6. HandOrder'
    BY <2>1, <2>2, <2>3, Numbers DEF OrderInv, QueueOrder, HandOrder, Holds
  <2>7. IncomingOrder'
    BY <2>1, <2>2 DEF OrderInv, IncomingOrder, Holds
  <2> QED BY <2>5, <2>6, <2>7 DEF OrderInv
<1>6. ASSUME NEW p \in Workers, Mux(p)
      PROVE  OrderInv'
  <2>1. /\ Holds(p) /\ ~Holds(p)'
        /\ last' = worker[p].hand
        /\ \A q \in Workers : q # p => worker'[q] = worker[q] /\ ~Holds(q)
        /\ UNCHANGED <<queue, submitted, incoming, main>>
    BY <1>0, <1>6 DEF Mux, Sendable, Holds, WorkerInv, Alive, inputVars, parentVars,
                      WorkerType
  <2>2. QueueOrder'
    BY <2>1 DEF OrderInv, QueueOrder, HandOrder
  <2>3. HandOrder'
    BY <2>1 DEF HandOrder, Holds
  <2>4. IncomingOrder'
    BY <2>1 DEF OrderInv, IncomingOrder, Holds
  <2> QED BY <2>2, <2>3, <2>4 DEF OrderInv
<1>7. ASSUME NEW p \in Workers, WorkerStep(p) \/ WorkerFault(p), ~Take(p), ~Mux(p)
      PROVE  OrderInv'
  <2>1. /\ UNCHANGED <<submitted, incoming, last, main>>
        /\ queue' = queue \/ (queue # << >> /\ queue' = Tail(queue))
    BY <1>7 DEF WorkerStep, WorkerFault, Leave, Discard, Retry, MuxFails, MuxHangs,
                WorkerCrashes, inputVars, parentVars
  <2>2. CASE WorkerGone(p)
    BY <1>2, <2>1, <2>2, FewerPackets
  <2>3. CASE ~WorkerGone(p)
    <3>1. \A q \in Workers : Holds(q)' => Holds(q) /\ worker'[q].hand = worker[q].hand
      BY <1>0, <1>7, <2>3
         DEF WorkerStep, WorkerFault, Leave, Discard, Retry, MuxFails, MuxHangs,
             WorkerCrashes, Sendable, Holds, WorkerType
    <3> QED BY <2>1, <3>1, FewerPackets
  <2> QED BY <2>2, <2>3
<1>8. CASE Stop \/ Evict \/ EvictMisses \/ StopLocks
  BY <1>1, <1>8, FewerPackets DEF Stop, Evict, EvictMisses, StopLocks, inputVars
<1>9. ASSUME process \in Workers, RequestWorkerStop
      PROVE  \A p \in Workers : Holds(p)' => Holds(p) /\ worker'[p].hand = worker[p].hand
  BY <1>0, <1>9 DEF RequestWorkerStop, Holds, WorkerType
<1>10. CASE StopWorker \/ MonitorChecks
  <2>1. \/ UNCHANGED worker
        \/ process \in Workers /\ RequestWorkerStop
    BY <1>10 DEF StopWorker, MonitorChecks, Lost, TypeInv, TypeOK
  <2>2. /\ UNCHANGED <<queue, submitted, incoming, last>>
        /\ main' = main \/ main' \notin {"full", "evicted"}
    BY <1>10 DEF StopWorker, MonitorChecks, inputVars
  <2> QED BY <1>1, <1>9, <2>1, <2>2, FewerPackets
<1>11. CASE StopJoins \/ MonitorJoins
  <2>1. process \in Workers /\ WorkerGone(process)
    BY <1>11 DEF StopJoins, MonitorJoins, JoinWorker, WorkerGone, LockInv, TypeInv, TypeOK
  <2>2. /\ UNCHANGED <<queue, submitted, incoming, last>>
        /\ main' = main \/ main' \notin {"full", "evicted"}
    BY <1>11 DEF StopJoins, MonitorJoins, inputVars
  <2> QED BY <1>2, <2>1, <2>2, FewerPackets
<1>12. CASE MonitorWakes \/ MonitorAsks
  BY <1>1, <1>12, FewerPackets DEF MonitorWakes, MonitorAsks, inputVars
<1>13. ASSUME NEW p \in Workers, MonitorStarts(p)
       PROVE  OrderInv'
  <2>1. \A q \in Workers : Holds(q)' => Holds(q) /\ worker'[q].hand = worker[q].hand
    <3>1. [NoWorker EXCEPT !.pc = "waiting"].pc = "waiting"
      BY DEF NoWorker
    <3> QED BY <1>0, <1>13, <3>1 DEF MonitorStarts, StartProcess, Holds
  <2>2. UNCHANGED <<queue, submitted, incoming, last, main>>
    BY <1>13 DEF MonitorStarts, inputVars
  <2> QED BY <2>1, <2>2, FewerPackets
<1>14. CASE HeartbeatExpires \/ ReaderStep \/ UNCHANGED vars
  BY <1>1, <1>14, FewerPackets
     DEF HeartbeatExpires, ReaderStep, ReadFlags, ReadNone, ReadAlive, readerKept, vars,
         inputVars, parentVars
<1> QED
  BY <1>3, <1>4, <1>5, <1>6, <1>7, <1>8, <1>10, <1>11, <1>12, <1>13, <1>14
     DEF Next, MainStep, MonitorStep

LEMMA InitOrder == Init => OrderInv
BY DEF Init, OrderInv, QueueOrder, HandOrder, IncomingOrder, Holds, NoWorker, NoPacket

-----------------------------------------------------------------------------
(***************************************************************************)
(* The refinement: the server sees a stream of RtspOutput.                 *)
(***************************************************************************)

publishers == {p \in Workers : worker[p].connected}

\* An attempt that succeeds begins a stream or continues the one there is.
LEMMA MuxIsOutput ==
  ASSUME SenderInv, OrderInv, NEW p \in Workers, Mux(p)
  PROVE  Output!Next
<1>1. /\ worker \in [Workers -> WorkerType]
      /\ \A q \in Workers : worker[q] \in WorkerType
  BY DEF SenderInv, TypeInv, TypeOK
<1>2. /\ worker[p].hand \in Packet /\ Newer(last.n, worker[p].hand.n)
      /\ Alive(p)
      /\ worker[p].awaitingKey => worker[p].hand.key
  BY <1>1 DEF Mux, Sendable, OrderInv, HandOrder, Holds, Alive
<1>3. PICK n \in 1 .. MaxPackets, k \in BOOLEAN : worker[p].hand = [n |-> n, key |-> k]
  BY <1>2 DEF Packet
<1>4. last' = [n |-> n, key |-> k] /\ Newer(last.n, n)
  BY <1>2, <1>3 DEF Mux
<1>5. publishers \subseteq {p}
  BY <1>2 DEF publishers, SenderInv, WorkerInv
<1>6. publishers' = {p}
  <2>1. \A q \in Workers : worker'[q].connected <=> q = p \/ worker[q].connected
    BY <1>1 DEF Mux, WorkerType
  <2> QED BY <1>5, <2>1 DEF publishers
<1>7. CASE worker[p].connected
  <2>1. publishers = {p}
    BY <1>5, <1>7 DEF publishers
  <2>2. Output!Continue(p, n, k)
    BY <1>4, <1>6, <2>1 DEF Output!Continue, Output!Newer, Newer, publishers
  <2> QED BY <2>2 DEF Output!Next
<1>8. CASE ~worker[p].connected
  <2>1. publishers = {}
    BY <1>5, <1>8 DEF publishers
  <2>2. k = TRUE
    BY <1>2, <1>3, <1>8 DEF SenderInv, WorkerInv
  <2>3. Output!Begin(p, n)
    BY <1>4, <1>6, <2>1, <2>2 DEF Output!Begin, Output!Newer, Newer, publishers
  <2> QED BY <2>3 DEF Output!Next
<1> QED BY <1>7, <1>8

\* Any other action ends the stream or leaves it alone.
LEMMA OthersAreOutput ==
  ASSUME SenderInv, [Next]_vars, \A p \in Workers : ~Mux(p)
  PROVE  (publishers' = publishers \/ publishers' = {}) /\ UNCHANGED last
<1> USE DEF SenderInv
<1>0. /\ worker \in [Workers -> WorkerType]
      /\ \A p \in Workers : worker[p] \in WorkerType
      /\ ~NoWorker.connected
  BY DEF TypeInv, TypeOK, NoWorker
<1>1. publishers \in SUBSET Workers /\ \A p, q \in publishers : p = q
  BY DEF publishers, WorkerInv
<1>2. ASSUME \A q \in Workers : worker'[q].connected => worker[q].connected
      PROVE  publishers' = publishers \/ publishers' = {}
  BY <1>1, <1>2 DEF publishers
<1>3. ASSUME UNCHANGED worker
      PROVE  \A q \in Workers : worker'[q].connected => worker[q].connected
  BY <1>3
<1>4. ASSUME NEW p \in Workers, WorkerGone(p)
      PROVE  \A q \in Workers : worker'[q].connected => worker[q].connected
  BY <1>0, <1>4 DEF WorkerGone
<1>5. ASSUME NEW p \in Workers, WorkerStep(p) \/ WorkerFault(p), ~Mux(p)
      PROVE  UNCHANGED last /\ \A q \in Workers : worker'[q].connected => worker[q].connected
  <2>1. UNCHANGED last
    BY <1>5 DEF WorkerStep, WorkerFault, Take, Leave, Discard, Retry, MuxFails, MuxHangs,
                WorkerCrashes
  <2>2. CASE ~WorkerGone(p)
    BY <1>0, <1>5, <2>2
       DEF WorkerStep, WorkerFault, Take, Leave, Discard, Retry, MuxFails, MuxHangs,
           WorkerCrashes, WorkerType
  <2> QED BY <1>4, <2>1, <2>2
<1>6. CASE StopWorker \/ MonitorChecks
  <2>1. UNCHANGED worker \/ (process \in Workers /\ RequestWorkerStop)
    BY <1>6 DEF StopWorker, MonitorChecks, Lost, TypeInv, TypeOK
  <2>2. \A q \in Workers : worker'[q].connected => worker[q].connected
    BY <1>0, <1>3, <2>1 DEF RequestWorkerStop, WorkerType
  <2> QED BY <1>2, <1>6, <2>2 DEF StopWorker, MonitorChecks
<1>7. CASE StopJoins \/ MonitorJoins
  <2>1. process \in Workers /\ WorkerGone(process) /\ UNCHANGED last
    BY <1>7 DEF StopJoins, MonitorJoins, JoinWorker, WorkerGone, LockInv, TypeInv, TypeOK
  <2> QED BY <1>2, <1>4, <2>1
<1>8. ASSUME NEW p \in Workers, MonitorStarts(p)
      PROVE  UNCHANGED last /\ \A q \in Workers : worker'[q].connected => worker[q].connected
  <2>1. ~[NoWorker EXCEPT !.pc = "waiting"].connected
    BY DEF NoWorker
  <2> QED BY <1>0, <1>8, <2>1 DEF MonitorStarts, StartProcess
<1>9. CASE (\E k \in BOOLEAN : Submit(k)) \/ Stop \/ Evict \/ EvictMisses \/ PutNewest \/ StopLocks
  BY <1>2, <1>3, <1>9 DEF Submit, Stop, Evict, EvictMisses, PutNewest, StopLocks
<1>10. CASE MonitorWakes \/ MonitorAsks
  BY <1>2, <1>3, <1>10 DEF MonitorWakes, MonitorAsks
<1>11. CASE HeartbeatExpires \/ ReaderStep \/ UNCHANGED vars
  BY <1>2, <1>3, <1>11
     DEF HeartbeatExpires, ReaderStep, ReadFlags, ReadNone, ReadAlive, readerKept, vars
<1> QED
  BY <1>2, <1>5, <1>6, <1>7, <1>8, <1>9, <1>10, <1>11 DEF Next, MainStep, MonitorStep

\* What the RTSP server receives is a stream of RtspOutput: one publisher at a
\* time, each beginning with a keyframe, and no packet after a later one, for any
\* number of failures, restarts and evictions.
THEOREM OutputRefines == Spec => ImplementsRtspOutput
<1>1. Init => Output!Init
  BY DEF Init, Output!Init, NoWorker, NoPacket, Output!NoPacket
<1>2. SenderInv /\ OrderInv /\ [Next]_vars => OrderInv'
  BY NextOrder
<1>3. SenderInv /\ OrderInv /\ [Next]_vars => [Output!Next]_<<publishers, last>>
  <2> SUFFICES ASSUME SenderInv, OrderInv, [Next]_vars
               PROVE  [Output!Next]_<<publishers, last>>
    OBVIOUS
  <2>1. CASE \E p \in Workers : Mux(p)
    BY <2>1, MuxIsOutput
  <2>2. CASE \A p \in Workers : ~Mux(p)
    <3>1. (publishers' = publishers \/ publishers' = {}) /\ UNCHANGED last
      BY <2>2, OthersAreOutput
    <3> QED BY <3>1 DEF Output!Next, Output!End, publishers
  <2> QED BY <2>1, <2>2
<1> QED
  BY <1>1, <1>2, <1>3, InitOrder, SenderInvariant, PTL
     DEF Spec, ImplementsRtspOutput, Output!Spec, publishers

=============================================================================
