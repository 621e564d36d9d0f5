---------------------------- MODULE PlumberProofs ----------------------------
(***************************************************************************)
(* Proofs about Plumber: its types, that every unit alive is under the     *)
(* control of the manager, that no pipeline has two, and that its state is *)
(* reported honestly, for any number of pipelines, units and handlers.     *)
(***************************************************************************)
EXTENDS Plumber, TLAPS

(***************************************************************************)
(* The inductive invariant.  What a call relies on between its steps is in *)
(* HolderInv: the lock keeps every other call away from the pipeline it is *)
(* at work on.  MainInv says when the main thread is at work, and that no  *)
(* handler is while it may give up a start_all().                          *)
(***************************************************************************)

RegisteredInv ==
  /\ \A n \in Names : processes[n] # None => unit[processes[n]].name = n
  /\ \A u \in Units : Alive(u) => unit[u].name \in Names

StartHeld(t) ==
  /\ thread[t].unit \in Units
  /\ unit[thread[t].unit].name = thread[t].at
  /\ unit[thread[t].unit].pc \notin {"none", "terminated", "killed"}
  /\ \A n \in Names : processes[n] # thread[t].unit
  /\ ~AliveIn(thread[t].at)

StopHeld(t) == processes[thread[t].at] # None /\ thread[t].at \in stopped

HolderInv ==
  \A t \in Threads : lock = t =>
    \/ thread[t].op = "start" /\ StartHeld(t)
    \/ thread[t].op = "stop" /\ StopHeld(t)

SpawnedInv == \A t \in Threads : thread[t].unit # None => lock = t /\ thread[t].op = "start"

MainInv ==
  /\ server = "starting" =>
       thread[Main].op # "stop" /\ \A h \in Handlers : thread[h] = Idle
  /\ server \in {"serving", "exiting", "exited"} => thread[Main] = Idle

StoppedInv ==
  \A n \in Names : processes[n] # None =>
    /\ (n \in stopped /\ AliveIn(n)) =>
         \E t \in Threads : lock = t /\ thread[t].at = n /\ thread[t].op = "stop"
    /\ unit[processes[n]].pc \in {"terminated", "killed"} => n \in stopped

PlumberInv ==
  /\ TypeOK
  /\ MainInv
  /\ RegisteredInv
  /\ SpawnedInv
  /\ HolderInv
  /\ Supervised
  /\ StoppedInv

-----------------------------------------------------------------------------
(***************************************************************************)
(* Type correctness.                                                       *)
(***************************************************************************)

LEMMA IdleType == Idle \in ThreadType /\ Idle.at = None
BY DEF Idle, ThreadType

\* What is done with a pipeline keeps the type of the threads.
LEMMA DoneType ==
  ASSUME TypeOK, NEW t \in Threads, NEW n \in Names, Done(t, n)
  PROVE  /\ thread' \in [Threads -> ThreadType]
         /\ thread'[t].at = None
         /\ thread'[t].op \in {"none", thread[t].op}
         /\ \A s \in Threads : s # t => thread'[s] = thread[s]
<1> DEFINE rest == thread[t].todo \ {n}
           next == IF rest = {} THEN Idle ELSE [Idle EXCEPT !.op = thread[t].op, !.todo = rest]
<1>1. thread[t].op \in {"none", "start", "stop"} /\ rest \in SUBSET Names
  BY DEF TypeOK, ThreadType
<1>2. next \in ThreadType /\ next.at = None /\ next.op \in {"none", thread[t].op}
  BY <1>1 DEF Idle, ThreadType
<1>3. thread' = [thread EXCEPT ![t] = next]
  BY DEF Done
<1> HIDE DEF next
<1> QED BY <1>2, <1>3 DEF TypeOK

LEMMA CallType ==
  ASSUME TypeOK, NEW t \in Threads, CallStep(t)
  PROVE  TypeOK'
<1> PICK n \in Names : \/ StartFinds(t, n)
                       \/ \E u \in Units : StartSpawns(t, n, u)
                       \/ StartRecords(t, n)
                       \/ StopFinds(t, n)
                       \/ StopTerminates(t, n)
                       \/ StopJoins(t, n)
  BY DEF CallStep
<1>0. None \notin Threads /\ None \notin Names /\ None \notin Units
  BY PlumberAssumption
<1>1. CASE StartFinds(t, n)
  BY <1>0, <1>1, DoneType DEF StartFinds, TypeOK, managerVars
<1>2. ASSUME NEW u \in Units, StartSpawns(t, n, u) PROVE TypeOK'
  <2>0. DEFINE next == [thread[t] EXCEPT !.at = n, !.unit = u]
  <2>1. /\ thread' \in [Threads -> ThreadType]
        /\ thread'[t].at = n
        /\ \A s \in Threads : s # t => thread'[s] = thread[s]
    <3>1. thread[t] \in ThreadType
      BY DEF TypeOK
    <3>2. next \in ThreadType /\ next.at = n
      BY <3>1 DEF ThreadType
    <3>3. thread' = [thread EXCEPT ![t] = next]
      BY <1>2 DEF StartSpawns
    <3> HIDE DEF next
    <3> QED BY <3>2, <3>3 DEF TypeOK
  <2>2. unit' \in [Units -> UnitType]
    <3>1. NewUnit(n) \in UnitType
      <4>1. 0 \in 0 .. MaxReports
        BY PlumberAssumption
      <4> QED BY <4>1 DEF NewUnit, NoUnit, Passed, UnitType
    <3> QED BY <1>2, <3>1 DEF StartSpawns, TypeOK
  <2>3. \A s \in Threads : lock' = s <=> thread'[s].at # None
    BY <1>0, <1>2, <2>1 DEF StartSpawns, TypeOK
  <2> QED BY <1>2, <2>1, <2>2, <2>3 DEF StartSpawns, TypeOK, managerVars
<1>3. CASE StartRecords(t, n)
  <2>1. thread[t].unit \in Units \cup {None} /\ Empty \in Report \cup {Empty}
    BY DEF TypeOK, ThreadType
  <2>2. /\ processes' \in [Names -> Units \cup {None}]
        /\ statistics' \in [Names -> Report \cup {Empty}]
        /\ stopped' \subseteq Names
    BY <1>3, <2>1 DEF StartRecords, TypeOK
  <2> QED BY <1>0, <1>3, <2>2, DoneType DEF StartRecords, TypeOK
<1>4. CASE StopFinds(t, n)
  BY <1>0, <1>4, DoneType DEF StopFinds, TypeOK
<1>5. CASE StopTerminates(t, n)
  <2>1. /\ thread' \in [Threads -> ThreadType]
        /\ thread'[t].at = n
        /\ \A s \in Threads : s # t => thread'[s] = thread[s]
    BY <1>5 DEF StopTerminates, TypeOK, ThreadType
  <2>2. unit' \in [Units -> UnitType]
    <3>1. \A u \in Units : [unit[u] EXCEPT !.pc = "terminated"] \in UnitType
      BY DEF TypeOK, UnitType
    <3> QED BY <1>5, <3>1 DEF StopTerminates, AliveIn, TypeOK
  <2>3. \A s \in Threads : lock' = s <=> thread'[s].at # None
    BY <1>0, <1>5, <2>1 DEF StopTerminates, TypeOK
  <2> QED BY <1>5, <2>1, <2>2, <2>3 DEF StopTerminates, TypeOK
<1>6. CASE StopJoins(t, n)
  BY <1>0, <1>6, DoneType DEF StopJoins, TypeOK, managerVars
<1> QED BY <1>1, <1>2, <1>3, <1>4, <1>5, <1>6

LEMMA MainType == ASSUME TypeOK, MainInv, MainStep \/ Interrupt PROVE TypeOK'
<1>0. None \notin Threads /\ Main \in Threads
  BY PlumberAssumption DEF Threads
<1>1. CASE MainServes
  BY <1>1 DEF MainServes, TypeOK, managerVars
<1>2. CASE MainReturns
  BY <1>2 DEF MainReturns, TypeOK, managerVars
<1>3. CASE MainExits
  BY <1>0, <1>3, IdleType DEF MainExits, TypeOK, managerVars
<1>4. CASE Interrupt /\ server = "serving"
  <2>1. [Idle EXCEPT !.op = "stop", !.todo = Names] \in ThreadType
    BY IdleType DEF ThreadType, Idle
  <2>2. thread' \in [Threads -> ThreadType] /\ thread'[Main].at = None
    BY <1>0, <1>4, <2>1 DEF Interrupt, TypeOK, Idle
  <2>3. thread[Main].at = None
    BY <1>4, IdleType DEF MainInv
  <2>4. \A s \in Threads : thread'[s].at = thread[s].at
    BY <1>0, <1>4, <2>2, <2>3 DEF Interrupt, TypeOK
  <2> QED BY <1>4, <2>2, <2>4 DEF Interrupt, TypeOK, managerVars
<1>5. CASE Interrupt /\ server = "starting"
  <2>1. \A h \in Handlers : thread[h].at = None
    BY <1>5, IdleType DEF MainInv
  <2>2. \A s \in Threads : thread'[s].at = None
    BY <1>0, <1>5, <2>1, IdleType DEF Interrupt, TypeOK, Threads
  <2>3. thread' \in [Threads -> ThreadType]
    BY <1>5, IdleType DEF Interrupt, TypeOK
  <2> QED BY <1>0, <1>5, <2>2, <2>3 DEF Interrupt, TypeOK, managerVars
<1> QED BY <1>1, <1>2, <1>3, <1>4, <1>5 DEF MainStep, Interrupt

\* What a unit may do.
UnitAction(u) ==
  \/ UnitRuns(u)
  \/ SendReport(u)
  \/ ReporterRaises(u)
  \/ UnitEnds(u)
  \/ UnitStep(u)
  \/ UnitCrashes(u)

\* What a step of a unit does to it: it goes on, or it is gone.
LEMMA UnitChanges ==
  ASSUME unit \in [Units -> UnitType], NEW u \in Units, UnitAction(u)
  PROVE  /\ \A v \in Units : v # u => unit'[v] = unit[v]
         /\ unit'[u].name = unit[u].name
         /\ \/ /\ unit'[u].late = unit[u].late
               /\ unit[u].pc \in {"starting", "running"}
               /\ unit'[u].pc \in {unit[u].pc, "running", "ending"}
            \/ unit[u].pc = "terminated" /\ unit'[u].pc = "killed"
            \/ unit[u].pc \in {"starting", "running", "ending"} /\ unit'[u].pc = "exited"
<1>1. \A pc, w : Gone(u, pc, w).pc = pc /\ Gone(u, pc, w).name = unit[u].name
  BY DEF Gone, NoUnit
<1>2. CASE UnitExits(u)
  BY <1>1, <1>2 DEF UnitExits
<1>3. CASE UnitKilled(u)
  BY <1>1, <1>3 DEF UnitKilled
<1>4. CASE UnitCrashes(u)
  BY <1>1, <1>4 DEF UnitCrashes
<1>5. CASE UnitRuns(u)
  BY <1>5 DEF UnitRuns, UnitType
<1>6. CASE UnitEnds(u)
  BY <1>6 DEF UnitEnds, UnitType
<1>7. CASE SendReport(u) \/ ReporterRaises(u)
  BY <1>7 DEF SendReport, ReporterRaises, UnitType
<1> QED BY <1>2, <1>3, <1>4, <1>5, <1>6, <1>7 DEF UnitAction, UnitStep

LEMMA UnitStepType ==
  ASSUME TypeOK, NEW u \in Units,
         UnitAction(u)
  PROVE  TypeOK'
<1>1. Snapshot(u) \in 1 .. MaxReports
  BY PlumberAssumption DEF TypeOK, UnitType, Snapshot
<1>2. Posted(u) \subseteq Report /\ Snapshot(u) \in 0 .. MaxReports
  BY <1>1, PlumberAssumption DEF Posted, TypeOK, Report
<1>3. \A pc \in {"killed", "exited"}, w \in BOOLEAN : Gone(u, pc, w) \in UnitType
  <2>1. NoUnit \in UnitType /\ unit[u].name \in Names \cup {None}
    BY PlumberAssumption DEF TypeOK, NoUnit, UnitType
  <2> QED BY <2>1 DEF Gone, UnitType
<1>4. CASE UnitStep(u) \/ UnitCrashes(u)
  <2>1. unit[u].worker \in BOOLEAN
    BY DEF TypeOK, UnitType
  <2>2. unit' \in [Units -> UnitType]
    BY <1>3, <1>4, <2>1 DEF TypeOK, UnitStep, UnitExits, UnitKilled, UnitCrashes
  <2> QED BY <1>4, <2>2 DEF TypeOK, managerVars, UnitStep, UnitExits, UnitKilled, UnitCrashes
<1>5. CASE UnitRuns(u) \/ SendReport(u) \/ ReporterRaises(u) \/ UnitEnds(u)
  <2>1. unit' \in [Units -> UnitType]
    <3>1. unit[u] \in UnitType
      BY DEF TypeOK
    <3>2. CASE UnitRuns(u)
      <4>1. [unit[u] EXCEPT !.pc = "running", !.worker = TRUE] \in UnitType
        BY <3>1 DEF UnitType
      <4> QED BY <3>2, <4>1 DEF TypeOK, UnitRuns
    <3>3. CASE ReporterRaises(u)
      <4>1. [unit[u] EXCEPT !.reporter = FALSE] \in UnitType
        BY <3>1 DEF UnitType
      <4> QED BY <3>3, <4>1 DEF TypeOK, ReporterRaises
    <3>4. CASE SendReport(u)
      <4>1. [unit[u] EXCEPT !.made = Snapshot(u)] \in UnitType
        BY <1>2, <3>1 DEF UnitType
      <4> QED BY <3>4, <4>1 DEF TypeOK, SendReport
    <3>5. CASE UnitEnds(u)
      <4>1. [unit[u] EXCEPT !.pc = "ending", !.reporter = FALSE, !.made = Snapshot(u)]
              \in UnitType
        BY <1>2, <3>1 DEF UnitType
      <4> QED BY <3>5, <4>1 DEF TypeOK, UnitEnds
    <3> QED BY <1>5, <3>2, <3>3, <3>4, <3>5
  <2>2. posts' \subseteq Report
    BY <1>2, <1>5 DEF TypeOK, UnitRuns, SendReport, ReporterRaises, UnitEnds
  <2> QED BY <1>5, <2>1, <2>2 DEF TypeOK, managerVars, UnitRuns, SendReport, ReporterRaises,
                                  UnitEnds
<1> QED BY <1>4, <1>5 DEF UnitAction

LEMMA NextType == ASSUME TypeOK, MainInv, [Next]_vars PROVE TypeOK'
<1>1. CASE UNCHANGED vars
  BY <1>1 DEF vars, managerVars, TypeOK
<1>2. ASSUME NEW h \in Handlers, NEW op \in {"start", "stop"}, NEW ns \in SUBSET Names,
             Request(h, op, ns)
      PROVE  TypeOK'
  <2>1. [Idle EXCEPT !.op = op, !.todo = ns] \in ThreadType
    BY IdleType DEF ThreadType, Idle
  <2>2. /\ thread' \in [Threads -> ThreadType]
        /\ \A s \in Threads : thread'[s].at = thread[s].at
    BY <1>2, <2>1 DEF Request, TypeOK, Threads, Idle
  <2> QED BY <1>2, <2>2 DEF Request, TypeOK, managerVars
<1>3. ASSUME NEW r \in posts, RecordStatistics(r) PROVE TypeOK'
  <2>1. r \in Report
    BY DEF TypeOK
  <2> QED BY <1>3, <2>1 DEF RecordStatistics, TypeOK
<1> QED BY <1>1, <1>2, <1>3, CallType, MainType, UnitStepType DEF Next, UnitAction

-----------------------------------------------------------------------------
(***************************************************************************)
(* When the main thread is at work.                                        *)
(***************************************************************************)

\* A step of a call, as the other threads see it.
LEMMA CallThread ==
  ASSUME TypeOK, NEW t \in Threads, CallStep(t)
  PROVE  /\ server' = server
         /\ server # "exited"
         /\ thread[t].op \in {"start", "stop"}
         /\ thread'[t].op \in {"none", thread[t].op}
         /\ \A s \in Threads : s # t => thread'[s] = thread[s]
<1> PICK n \in Names : \/ StartFinds(t, n)
                       \/ \E u \in Units : StartSpawns(t, n, u)
                       \/ StartRecords(t, n)
                       \/ StopFinds(t, n)
                       \/ StopTerminates(t, n)
                       \/ StopJoins(t, n)
  BY DEF CallStep
<1>1. CASE StartFinds(t, n)
  BY <1>1, DoneType DEF StartFinds, Calls
<1>2. ASSUME NEW u \in Units, StartSpawns(t, n, u)
      PROVE  /\ server' = server
             /\ server # "exited"
             /\ thread[t].op \in {"start", "stop"}
             /\ thread'[t].op \in {"none", thread[t].op}
             /\ \A s \in Threads : s # t => thread'[s] = thread[s]
  <2>1. thread[t] \in ThreadType
    BY DEF TypeOK
  <2>2. [thread[t] EXCEPT !.at = n, !.unit = u].op = thread[t].op
    BY <2>1 DEF ThreadType
  <2>3. thread'[t] = [thread[t] EXCEPT !.at = n, !.unit = u]
    BY <1>2 DEF StartSpawns, TypeOK
  <2> QED BY <1>2, <2>2, <2>3 DEF StartSpawns, Calls, TypeOK
<1>3. CASE StartRecords(t, n)
  BY <1>3, DoneType DEF StartRecords, Calls
<1>4. CASE StopFinds(t, n)
  BY <1>4, DoneType DEF StopFinds, Calls
<1>5. CASE StopTerminates(t, n)
  BY <1>5 DEF StopTerminates, Calls, TypeOK, ThreadType
<1>6. CASE StopJoins(t, n)
  BY <1>6, DoneType DEF StopJoins, Calls
<1> QED BY <1>1, <1>2, <1>3, <1>4, <1>5, <1>6

LEMMA NextMain == ASSUME TypeOK, MainInv, [Next]_vars PROVE MainInv'
<1>0. /\ Main \in Threads /\ \A h \in Handlers : h \in Threads /\ h # Main
      /\ thread \in [Threads -> ThreadType]
      /\ Idle.op = "none"
  BY PlumberAssumption DEF Threads, TypeOK, Idle
<1>1. CASE UNCHANGED vars
  BY <1>1 DEF vars, MainInv
<1>2. ASSUME NEW t \in Threads, CallStep(t) PROVE MainInv'
  BY <1>0, <1>2, CallThread DEF MainInv
<1>3. ASSUME NEW h \in Handlers, NEW op, NEW ns, Request(h, op, ns) PROVE MainInv'
  BY <1>0, <1>3 DEF Request, MainInv
<1>4. CASE MainStep
  BY <1>0, <1>4 DEF MainStep, MainServes, MainReturns, MainExits, MainInv
<1>5. CASE Interrupt
  BY <1>0, <1>5 DEF Interrupt, MainInv
<1>6. CASE UNCHANGED <<server, thread>>
  BY <1>6 DEF MainInv
<1>7. ASSUME NEW u \in Units,
             UnitAction(u)
      PROVE  UNCHANGED <<server, thread>>
  BY <1>7 DEF UnitAction, UnitRuns, SendReport, ReporterRaises,
              UnitEnds, UnitStep, UnitExits, UnitKilled, UnitCrashes, Gone, NoUnit
<1>8. ASSUME NEW r \in posts, RecordStatistics(r) PROVE UNCHANGED <<server, thread>>
  BY <1>8 DEF RecordStatistics
<1> QED BY <1>1, <1>2, <1>3, <1>4, <1>5, <1>6, <1>7, <1>8 DEF Next, UnitAction

-----------------------------------------------------------------------------
(***************************************************************************)
(* The control of the units: the rest of the invariant, one lemma for each *)
(* kind of step.                                                           *)
(***************************************************************************)

ControlInv == RegisteredInv /\ SpawnedInv /\ HolderInv /\ Supervised /\ StoppedInv

\* What the lemmas below use of the types.
Shapes ==
  /\ thread \in [Threads -> ThreadType]
  /\ processes \in [Names -> Units \cup {None}]
  /\ unit \in [Units -> UnitType]
  /\ lock \in Threads \cup {None}
  /\ \A t \in Threads : lock = t <=> thread[t].at # None
  /\ None \notin Units /\ None \notin Threads /\ None \notin Names

LEMMA TypeShapes == TypeOK => Shapes
BY PlumberAssumption DEF TypeOK, Shapes

\* Steps of a unit that keep it alive or let it end, and touch nothing else of it
\* than the manager looks at: no call is disturbed.
LEMMA UnitControl ==
  ASSUME Shapes, Shapes', ControlInv,
         UNCHANGED <<server, lock, thread, processes, stopped>>,
         \A u \in Units :
           /\ unit'[u].name = unit[u].name
           /\ Alive(u)' => Alive(u)
           /\ unit'[u].pc \in {"terminated", "killed"} =>
                unit[u].pc \in {"terminated", "killed"}
           /\ unit'[u].pc = "none" => unit[u].pc = "none"
  PROVE  ControlInv'
<1>1. RegisteredInv'
  BY DEF Shapes, ControlInv, RegisteredInv
<1>2. \A n \in Names : AliveIn(n)' => AliveIn(n)
  BY DEF Shapes, AliveIn, Alive
<1>3. HolderInv'
  <2> SUFFICES ASSUME NEW t \in Threads, lock' = t
               PROVE  (thread[t].op = "start" /\ StartHeld(t)')
                        \/ (thread[t].op = "stop" /\ StopHeld(t)')
    BY DEF HolderInv
  <2>1. thread[t].at \in Names
    BY DEF Shapes, ThreadType
  <2>2. CASE thread[t].op = "start" /\ StartHeld(t)
    BY <1>2, <2>1, <2>2 DEF StartHeld
  <2>3. CASE thread[t].op = "stop" /\ StopHeld(t)
    BY <2>3 DEF StopHeld
  <2> QED BY <2>2, <2>3 DEF ControlInv, HolderInv
<1>4. Supervised'
  BY DEF ControlInv, Supervised
<1>5. StoppedInv'
  BY <1>2 DEF Shapes, ControlInv, StoppedInv
<1>6. SpawnedInv'
  BY DEF ControlInv, SpawnedInv
<1> QED BY <1>1, <1>3, <1>4, <1>5, <1>6 DEF ControlInv

\* A call that has the lock lets it go, or never took it.
LEMMA DoneControl ==
  ASSUME NEW t \in Threads, NEW n \in Names, Done(t, n), thread \in [Threads -> ThreadType]
  PROVE  /\ thread'[t].unit = None
         /\ thread'[t].at = None
         /\ \A s \in Threads : s # t => thread'[s] = thread[s]
<1> DEFINE rest == thread[t].todo \ {n}
           next == IF rest = {} THEN Idle ELSE [Idle EXCEPT !.op = thread[t].op, !.todo = rest]
<1>1. next.unit = None /\ next.at = None
  BY DEF Idle
<1>2. thread' = [thread EXCEPT ![t] = next]
  BY DEF Done
<1> HIDE DEF next
<1> QED BY <1>1, <1>2

LEMMA CallControl ==
  ASSUME Shapes, Shapes', ControlInv, NEW t \in Threads, CallStep(t)
  PROVE  ControlInv'
<1> PICK n \in Names : \/ StartFinds(t, n)
                       \/ \E u \in Units : StartSpawns(t, n, u)
                       \/ StartRecords(t, n)
                       \/ StopFinds(t, n)
                       \/ StopTerminates(t, n)
                       \/ StopJoins(t, n)
  BY DEF CallStep
<1> USE DEF Shapes
<1>1. ASSUME thread[t].op # "none"
      PROVE  \A u \in Units : Alive(u) =>
               processes[unit[u].name] = u \/ (lock \in Threads /\ thread[lock].unit = u)
  BY <1>1 DEF ControlInv, Supervised, Idle
<1>2. CASE StartFinds(t, n)
  <2>1. /\ lock = None /\ thread[t].op = "start"
        /\ UNCHANGED <<server, lock, processes, stopped, unit>>
    BY <1>2 DEF StartFinds, Calls, managerVars
  <2>2. /\ thread'[t].unit = None
        /\ \A s \in Threads : s # t => thread'[s] = thread[s]
    BY <1>2, DoneControl DEF StartFinds
  <2>3. RegisteredInv' /\ SpawnedInv' /\ HolderInv' /\ StoppedInv'
    BY <2>1, <2>2 DEF ControlInv, RegisteredInv, SpawnedInv, HolderInv, StoppedInv, AliveIn,
                      Alive
  <2>4. Supervised'
    BY <1>1, <2>1 DEF Supervised, Alive
  <2> QED BY <2>3, <2>4 DEF ControlInv
<1>3. ASSUME NEW u \in Units, StartSpawns(t, n, u) PROVE ControlInv'
  <2>1. /\ lock = None /\ lock' = t /\ thread[t].op = "start"
        /\ ~AliveIn(n) /\ ~Alive(u)
        /\ \A m \in Names : processes[m] # u
        /\ UNCHANGED <<server, processes, stopped>>
    BY <1>3 DEF StartSpawns, Calls, Unused, managerVars
  <2>2. /\ unit'[u].name = n /\ unit'[u].pc = "starting"
        /\ \A v \in Units : v # u => unit'[v] = unit[v]
    BY <1>3 DEF StartSpawns, NewUnit, NoUnit
  <2>3. /\ thread'[t].unit = u /\ thread'[t].at = n /\ thread'[t].op = "start"
        /\ \A s \in Threads : s # t => thread'[s] = thread[s]
    <3>1. thread'[t] = [thread[t] EXCEPT !.at = n, !.unit = u]
      BY <1>3 DEF StartSpawns
    <3>2. thread[t] \in ThreadType
      OBVIOUS
    <3>3. thread'[t].unit = u /\ thread'[t].at = n /\ thread'[t].op = thread[t].op
      BY <3>1, <3>2 DEF ThreadType
    <3> QED BY <1>3, <2>1, <3>3 DEF StartSpawns
  <2>4. \A m \in Names : AliveIn(m)' = AliveIn(m)
    BY <2>1, <2>2 DEF AliveIn, Alive
  <2>5. RegisteredInv' /\ SpawnedInv'
    BY <2>1, <2>2, <2>3 DEF ControlInv, RegisteredInv, SpawnedInv, Alive
  <2>6. HolderInv'
    BY <2>1, <2>2, <2>3, <2>4 DEF HolderInv, StartHeld
  <2>7. Supervised'
    BY <1>1, <2>1, <2>2, <2>3 DEF Supervised, Alive
  <2>8. StoppedInv'
    BY <2>1, <2>2, <2>4 DEF ControlInv, StoppedInv
  <2> QED BY <2>5, <2>6, <2>7, <2>8 DEF ControlInv
<1>4. CASE StartRecords(t, n)
  <2> DEFINE u == thread[t].unit
  <2>1. /\ lock = t /\ lock' = None /\ thread[t].op = "start" /\ thread[t].at = n
        /\ processes' = [processes EXCEPT ![n] = u]
        /\ stopped' = stopped \ {n}
        /\ UNCHANGED <<server, unit>>
    BY <1>4 DEF StartRecords, Calls
  <2>2. /\ thread'[t].unit = None
        /\ \A s \in Threads : s # t => thread'[s] = thread[s]
    BY <1>4, DoneControl DEF StartRecords
  <2>3. /\ u \in Units /\ unit[u].name = n /\ unit[u].pc \notin {"none", "terminated", "killed"}
        /\ ~AliveIn(n)
    BY <2>1 DEF ControlInv, HolderInv, StartHeld
  <2>4. /\ processes'[n] = u
        /\ \A m \in Names : m # n => processes'[m] = processes[m]
    BY <2>1
  <2>5. RegisteredInv' /\ SpawnedInv' /\ HolderInv'
    BY <2>1, <2>2, <2>3, <2>4 DEF ControlInv, RegisteredInv, SpawnedInv, HolderInv,
                                      Alive
  <2>6. \A v \in Units : Alive(v) => unit[v].name \in Names /\ processes'[unit[v].name] = v
    BY <1>1, <2>1, <2>3, <2>4 DEF AliveIn, ControlInv, RegisteredInv
  <2>7. Supervised'
    BY <2>1, <2>6 DEF Supervised, Alive
  <2>8. StoppedInv'
    BY <2>1, <2>3, <2>4 DEF ControlInv, StoppedInv, AliveIn, Alive
  <2> QED BY <2>5, <2>7, <2>8 DEF ControlInv
<1>5. CASE StopFinds(t, n)
  <2>1. /\ lock = None /\ thread[t].op = "stop" /\ ~AliveIn(n)
        /\ stopped' = stopped \cup {n}
        /\ UNCHANGED <<server, lock, processes, unit>>
    BY <1>5 DEF StopFinds, Calls
  <2>2. /\ thread'[t].unit = None
        /\ \A s \in Threads : s # t => thread'[s] = thread[s]
    BY <1>5, DoneControl DEF StopFinds
  <2>3. RegisteredInv' /\ SpawnedInv' /\ HolderInv' /\ StoppedInv'
    BY <2>1, <2>2 DEF ControlInv, RegisteredInv, SpawnedInv, HolderInv, StoppedInv, AliveIn,
                      Alive
  <2>4. Supervised'
    BY <1>1, <2>1 DEF Supervised, Alive
  <2> QED BY <2>3, <2>4 DEF ControlInv
<1>6. CASE StopTerminates(t, n)
  <2> DEFINE u == processes[n]
  <2>1. /\ lock = None /\ lock' = t /\ thread[t].op = "stop"
        /\ u \in Units /\ Alive(u)
        /\ stopped' = stopped \cup {n}
        /\ UNCHANGED <<server, processes>>
    BY <1>6 DEF StopTerminates, Calls, AliveIn
  <2>2. /\ unit'[u].pc = "terminated"
        /\ \A v \in Units : v # u => unit'[v] = unit[v]
        /\ \A v \in Units : unit'[v].name = unit[v].name
    BY <1>6, <2>1 DEF StopTerminates, UnitType
  <2>3. /\ thread'[t].op = "stop" /\ thread'[t].unit = thread[t].unit /\ thread'[t].at = n
        /\ \A s \in Threads : s # t => thread'[s] = thread[s]
    BY <1>6, <2>1 DEF StopTerminates, ThreadType
  <2>4. \A m \in Names : m # n => processes[m] # u
    BY <2>1 DEF ControlInv, RegisteredInv
  <2>5. RegisteredInv' /\ SpawnedInv'
    BY <2>1, <2>2, <2>3 DEF ControlInv, RegisteredInv, SpawnedInv, Alive
  <2>6. HolderInv'
    BY <2>1, <2>3 DEF HolderInv, StopHeld
  <2>7. Supervised'
    BY <1>1, <2>1, <2>2 DEF Supervised, Alive
  <2>8. StoppedInv'
    BY <2>1, <2>2, <2>3, <2>4 DEF ControlInv, StoppedInv, AliveIn, Alive
  <2> QED BY <2>5, <2>6, <2>7, <2>8 DEF ControlInv
<1>7. CASE StopJoins(t, n)
  <2>1. /\ lock = t /\ lock' = None /\ thread[t].op = "stop" /\ thread[t].at = n
        /\ ~AliveIn(n)
        /\ UNCHANGED <<server, processes, stopped, unit>>
    BY <1>7 DEF StopJoins, Calls, managerVars
  <2>2. /\ thread'[t].unit = None
        /\ \A s \in Threads : s # t => thread'[s] = thread[s]
    BY <1>7, DoneControl DEF StopJoins
  <2>3. RegisteredInv' /\ SpawnedInv' /\ HolderInv'
    BY <2>1, <2>2 DEF ControlInv, RegisteredInv, SpawnedInv, HolderInv,
                                      Alive
  <2>4. StoppedInv'
    BY <2>1 DEF ControlInv, StoppedInv, AliveIn, Alive
  <2>5. Supervised'
    BY <1>1, <2>1 DEF ControlInv, SpawnedInv, Supervised, Alive
  <2> QED BY <2>3, <2>4, <2>5 DEF ControlInv
<1> QED BY <1>2, <1>3, <1>4, <1>5, <1>6, <1>7

\* main() stops a call only in the middle of start_all(), when nobody else is at work.
LEMMA MainControl ==
  ASSUME Shapes, Shapes', MainInv, ControlInv, MainStep \/ Interrupt
  PROVE  ControlInv'
<1> USE DEF Shapes
<1>0. /\ Main \in Threads /\ \A t \in Threads : t = Main \/ t \in Handlers
      /\ Idle.op = "none" /\ Idle.at = None /\ Idle.unit = None
  BY DEF Threads, Idle
<1>1. CASE MainServes \/ MainReturns
  <2>1. /\ server \in {"starting", "closing"}
        /\ UNCHANGED <<lock, thread, processes, stopped, unit>>
    BY <1>1 DEF MainServes, MainReturns, managerVars
  <2>2. RegisteredInv' /\ SpawnedInv' /\ HolderInv' /\ StoppedInv'
    BY <2>1 DEF ControlInv, RegisteredInv, SpawnedInv, HolderInv, StartHeld, StopHeld,
                StoppedInv, AliveIn, Alive
  <2>3. Supervised'
    BY <2>1 DEF ControlInv, Supervised, Alive
  <2> QED BY <2>2, <2>3 DEF ControlInv
<1>2. CASE MainExits
  <2>1. /\ lock' = None /\ \A t \in Threads : thread'[t] = Idle
        /\ \A u \in Units : ~Alive(u)
        /\ UNCHANGED <<processes, stopped, unit>>
    BY <1>2 DEF MainExits, managerVars
  <2>2. RegisteredInv' /\ SpawnedInv' /\ HolderInv' /\ Supervised' /\ StoppedInv'
    BY <1>0, <2>1 DEF ControlInv, RegisteredInv, SpawnedInv, HolderInv, Supervised,
                      StoppedInv, AliveIn, Alive
  <2> QED BY <2>2 DEF ControlInv
<1>3. CASE Interrupt /\ server = "serving"
  <2>1. /\ thread[Main] = Idle /\ lock # Main
        /\ UNCHANGED <<lock, processes, stopped, unit>>
    BY <1>0, <1>3 DEF Interrupt, MainInv, managerVars
  <2>2. /\ thread'[Main].unit = None
        /\ \A t \in Threads : t # Main => thread'[t] = thread[t]
    <3> DEFINE next == [Idle EXCEPT !.op = "stop", !.todo = Names]
    <3>1. next.unit = None
      BY DEF Idle
    <3>2. thread' = [thread EXCEPT ![Main] = next]
      BY <1>3 DEF Interrupt
    <3> HIDE DEF next
    <3> QED BY <1>0, <3>1, <3>2
  <2>3. RegisteredInv' /\ SpawnedInv' /\ StoppedInv'
    BY <2>1, <2>2 DEF ControlInv, RegisteredInv, SpawnedInv, StoppedInv, AliveIn, Alive
  <2>4. HolderInv'
    BY <2>1, <2>2 DEF ControlInv, HolderInv, StartHeld, StopHeld, AliveIn, Alive
  <2>5. Supervised'
    BY <1>3, <2>1, <2>2 DEF ControlInv, Supervised, Alive
  <2> QED BY <2>3, <2>4, <2>5 DEF ControlInv
<1>4. CASE Interrupt /\ server = "starting"
  <2>1. /\ server' = "exiting" /\ lock' = None
        /\ UNCHANGED <<processes, stopped, unit>>
    BY <1>4 DEF Interrupt, managerVars
  <2>2. \A t \in Threads : thread'[t] = Idle /\ thread[t].op # "stop"
    BY <1>0, <1>4 DEF Interrupt, MainInv
  <2>3. RegisteredInv' /\ SpawnedInv' /\ HolderInv' /\ Supervised' /\ StoppedInv'
    BY <1>0, <2>1, <2>2 DEF ControlInv, RegisteredInv, SpawnedInv, HolderInv, Supervised,
                            StoppedInv, AliveIn, Alive
  <2> QED BY <2>3 DEF ControlInv
<1> QED BY <1>1, <1>2, <1>3, <1>4 DEF MainStep, Interrupt

LEMMA RequestControl ==
  ASSUME Shapes, Shapes', ControlInv, NEW h \in Handlers, NEW op, NEW ns, Request(h, op, ns)
  PROVE  ControlInv'
<1> USE DEF Shapes
<1>1. /\ h \in Threads /\ server = "serving" /\ thread[h] = Idle /\ lock # h
      /\ UNCHANGED <<server, lock, processes, stopped, unit>>
  BY DEF Request, Threads, Idle, managerVars
<1>2. /\ thread'[h].unit = None
      /\ \A t \in Threads : t # h => thread'[t] = thread[t]
  BY <1>1 DEF Request, Idle
<1>3. RegisteredInv' /\ SpawnedInv' /\ StoppedInv'
  BY <1>1, <1>2 DEF ControlInv, RegisteredInv, SpawnedInv, StoppedInv, AliveIn, Alive
<1>4. HolderInv'
  BY <1>1, <1>2 DEF ControlInv, HolderInv, StartHeld, StopHeld, AliveIn, Alive
<1>5. Supervised'
  BY <1>1, <1>2 DEF ControlInv, Supervised, Alive
<1> QED BY <1>3, <1>4, <1>5 DEF ControlInv

\* The steps of a unit, and a report that is recorded.
LEMMA UnitSteps ==
  ASSUME Shapes, NEW u \in Units,
         UnitAction(u)
  PROVE  /\ UNCHANGED <<server, lock, thread, processes, stopped>>
         /\ \A v \in Units :
              /\ unit'[v].name = unit[v].name
              /\ Alive(v)' => Alive(v)
              /\ unit'[v].pc \in {"terminated", "killed"} =>
                   unit[v].pc \in {"terminated", "killed"}
              /\ unit'[v].pc = "none" => unit[v].pc = "none"
<1>1. UNCHANGED <<server, lock, thread, processes, stopped>>
  BY DEF UnitAction, UnitRuns, SendReport, ReporterRaises,
              UnitEnds, UnitStep, UnitExits, UnitKilled, UnitCrashes, Gone, NoUnit,
         managerVars
<1> QED BY <1>1, UnitChanges DEF Shapes, Alive

-----------------------------------------------------------------------------
(***************************************************************************)
(* The invariant of the specification.                                     *)
(***************************************************************************)

LEMMA InitInv == Init => PlumberInv
<1> SUFFICES ASSUME Init PROVE PlumberInv
  OBVIOUS
<1>0. /\ None \notin Units /\ None \notin Threads /\ None \notin Names
      /\ Main \in Threads /\ \A h \in Handlers : h \in Threads /\ h # Main
      /\ 0 \in 0 .. MaxReports
  BY PlumberAssumption DEF Threads
<1>1. PICK auto \in {Idle, [Idle EXCEPT !.op = "start", !.todo = Names]} :
        thread = [t \in Threads |-> IF t = Main THEN auto ELSE Idle]
  BY DEF Init
<1>2. /\ auto \in ThreadType /\ auto.at = None /\ auto.unit = None /\ auto.op # "stop"
      /\ Idle \in ThreadType /\ Idle.at = None /\ Idle.unit = None
  <2> DEFINE all == [Idle EXCEPT !.op = "start", !.todo = Names]
  <2>1. /\ all \in ThreadType /\ all.at = None /\ all.unit = None /\ all.op # "stop"
        /\ Idle \in ThreadType /\ Idle.at = None /\ Idle.unit = None /\ Idle.op # "stop"
    BY DEF Idle, ThreadType
  <2>2. auto = Idle \/ auto = all
    BY <1>1
  <2> HIDE DEF all
  <2> QED BY <2>1, <2>2
<1>3. \A t \in Threads : thread[t].at = None /\ thread[t].unit = None
  BY <1>1, <1>2
<1>4. NoUnit \in UnitType /\ NoUnit.pc = "none"
  BY <1>0 DEF NoUnit, UnitType
<1>5. TypeOK
  BY <1>0, <1>1, <1>2, <1>3, <1>4 DEF Init, TypeOK
<1>6. MainInv
  BY <1>0, <1>1, <1>2 DEF Init, MainInv
<1>7. RegisteredInv /\ SpawnedInv /\ HolderInv /\ Supervised /\ StoppedInv
  BY <1>0, <1>3, <1>4 DEF Init, RegisteredInv, SpawnedInv, HolderInv, Supervised, StoppedInv,
                          Alive
<1> QED BY <1>5, <1>6, <1>7 DEF PlumberInv

LEMMA NextInv == PlumberInv /\ [Next]_vars => PlumberInv'
<1> SUFFICES ASSUME PlumberInv, [Next]_vars PROVE PlumberInv'
  OBVIOUS
<1>0. TypeOK /\ MainInv /\ ControlInv
  BY DEF PlumberInv, ControlInv
<1>1. TypeOK' /\ MainInv'
  BY <1>0, NextType, NextMain
<1>2. Shapes /\ Shapes'
  <2>1. Shapes
    BY <1>0, TypeShapes
  <2>2. Shapes'
    BY <1>1, TypeShapes, PTL
  <2> QED BY <2>1, <2>2
<1>3. ASSUME UNCHANGED vars PROVE ControlInv'
  BY <1>0, <1>2, <1>3, UnitControl DEF vars, managerVars, Alive
<1>4. ASSUME NEW h \in Handlers, NEW op, NEW ns, Request(h, op, ns) PROVE ControlInv'
  BY <1>0, <1>2, <1>4, RequestControl
<1>5. ASSUME NEW t \in Threads, CallStep(t) PROVE ControlInv'
  BY <1>0, <1>2, <1>5, CallControl
<1>6. ASSUME MainStep \/ Interrupt PROVE ControlInv'
  BY <1>0, <1>2, <1>6, MainControl
<1>7. ASSUME NEW u \in Units,
             UnitAction(u)
      PROVE  ControlInv'
  BY <1>0, <1>2, <1>7, UnitSteps, UnitControl
<1>8. ASSUME NEW r \in posts, RecordStatistics(r) PROVE ControlInv'
  BY <1>0, <1>2, <1>8, UnitControl DEF RecordStatistics, Alive
<1>9. ControlInv'
  BY <1>3, <1>4, <1>5, <1>6, <1>7, <1>8 DEF Next, UnitAction
<1> QED BY <1>1, <1>9 DEF PlumberInv, ControlInv

\* What holds at every moment of plumber/cli.py, whatever the requests and faults.
THEOREM PlumberInvariant == Spec => []PlumberInv
BY InitInv, NextInv, PTL DEF Spec

\* The variables of the plumber keep their types, and the lock has a pipeline.
THEOREM TypeCorrect == Spec => []TypeOK
<1>1. PlumberInv => TypeOK
  BY DEF PlumberInv
<1> QED BY <1>1, PlumberInvariant, PTL

\* No unit ever runs that start(), stop() and stop_all() cannot reach (cli.py:140-185).
THEOREM UnitsSupervised == Spec => []Supervised
<1>1. PlumberInv => Supervised
  BY DEF PlumberInv
<1> QED BY <1>1, PlumberInvariant, PTL

\* What status() (cli.py:104) says of a stopped pipeline is true between calls.
THEOREM StateReported == Spec => []StateIsHonest
<1>1. PlumberInv => StateIsHonest
  BY PlumberAssumption DEF PlumberInv, StoppedInv, StateIsHonest
<1> QED BY <1>1, PlumberInvariant, PTL

-----------------------------------------------------------------------------
(***************************************************************************)
(* The shutdown: what stop_all() leaves behind.                            *)
(***************************************************************************)

\* While stop_all() is under way, a unit that is alive belongs to a pipeline it has yet
\* to come to, or was started after it had come by.
OnlyLateRemain ==
  server = "closing" =>
    \A u \in Units : Alive(u) => unit[u].late \/ unit[u].name \in thread[Main].todo

\* Main starts nothing any more.
ClosingInv == (server = "closing" => thread[Main].op # "start") /\ OnlyLateRemain

\* What Main has done with leaves no unit behind that stop() could have reached.
LEMMA StopLeavesNone ==
  ASSUME PlumberInv, ClosingInv, server = "closing", CallStep(Main)
  PROVE  OnlyLateRemain'
<1> USE DEF OnlyLateRemain, Alive
<1>0. /\ Main \in Threads /\ None \notin Threads /\ thread[Main] \in ThreadType
      /\ unit \in [Units -> UnitType]
      /\ thread[Main].op # "start" /\ server' = server
  BY PlumberAssumption, CallThread DEF PlumberInv, TypeOK, Threads, ClosingInv
<1>1. PICK n \in Names : StopFinds(Main, n) \/ StopTerminates(Main, n) \/ StopJoins(Main, n)
  BY <1>0 DEF CallStep, StartFinds, StartSpawns, StartRecords, Calls
<1>2. CASE StopTerminates(Main, n)
  <2>1. processes[n] \in Units
    BY <1>2 DEF StopTerminates, AliveIn, PlumberInv, TypeOK
  <2>2. thread'[Main].todo = thread[Main].todo
    BY <1>0, <1>2 DEF StopTerminates, ThreadType, PlumberInv, TypeOK
  <2>3. \A u \in Units :
          /\ unit'[u].name = unit[u].name /\ unit'[u].late = unit[u].late
          /\ unit'[u].pc = unit[u].pc \/ (u = processes[n] /\ Alive(u))
    BY <1>0, <1>2, <2>1 DEF StopTerminates, AliveIn, UnitType
  <2> QED BY <1>0, <2>2, <2>3 DEF ClosingInv
<1>3. CASE StopFinds(Main, n) \/ StopJoins(Main, n)
  <2>1. /\ UNCHANGED unit /\ Done(Main, n) /\ ~AliveIn(n)
        /\ lock = None \/ (lock = Main /\ thread[Main].op = "stop")
    BY <1>3 DEF StopFinds, StopJoins, Calls
  <2>2. thread[Main].todo \ {n} \subseteq thread'[Main].todo
    <3> DEFINE rest == thread[Main].todo \ {n}
               next == [Idle EXCEPT !.op = thread[Main].op, !.todo = rest]
    <3>1. next.todo = rest /\ Idle.todo = {}
      BY DEF Idle
    <3>2. thread'[Main] = IF rest = {} THEN Idle ELSE next
      BY <1>0, <2>1 DEF Done, PlumberInv, TypeOK
    <3> HIDE DEF next
    <3> QED BY <3>1, <3>2
  <2>3. ASSUME NEW u \in Units, Alive(u) PROVE unit[u].name # n
    <3>1. \A t \in Threads : ~(lock = t /\ thread[t].unit = u)
      BY <1>0, <2>1, PlumberAssumption DEF PlumberInv, SpawnedInv
    <3>2. processes[unit[u].name] = u
      BY <2>3, <3>1 DEF PlumberInv, Supervised
    <3> QED BY <2>1, <2>3, <3>2, PlumberAssumption DEF AliveIn
  <2> QED BY <1>0, <2>1, <2>2, <2>3 DEF ClosingInv
<1> QED BY <1>1, <1>2, <1>3

\* A handler that starts a unit starts it for a pipeline Main has yet to come to, or late.
LEMMA HandlerCallsLate ==
  ASSUME PlumberInv, ClosingInv, server = "closing",
         NEW h \in Threads, h # Main, CallStep(h)
  PROVE  OnlyLateRemain'
<1> USE DEF OnlyLateRemain, Alive
<1>0. /\ Main \in Threads /\ unit \in [Units -> UnitType]
      /\ server' = server /\ thread'[Main] = thread[Main]
  BY CallThread DEF PlumberInv, TypeOK, Threads
<1>1. PICK n \in Names : \/ \E u \in Units : StartSpawns(h, n, u)
                         \/ StopTerminates(h, n)
                         \/ UNCHANGED unit
  BY DEF CallStep, StartFinds, StartRecords, StopFinds, StopJoins
<1>2. ASSUME NEW u \in Units, StartSpawns(h, n, u) PROVE OnlyLateRemain'
  <2>1. /\ unit'[u].name = n /\ unit'[u].late = Passed(n)
        /\ \A v \in Units : v # u => unit'[v] = unit[v]
    BY <1>0, <1>2 DEF StartSpawns, NewUnit, NoUnit
  <2> QED BY <1>0, <2>1 DEF ClosingInv, Passed
<1>3. CASE StopTerminates(h, n)
  <2>1. processes[n] \in Units
    BY <1>3 DEF StopTerminates, AliveIn, PlumberInv, TypeOK
  <2>2. \A u \in Units :
          /\ unit'[u].name = unit[u].name /\ unit'[u].late = unit[u].late
          /\ unit'[u].pc = unit[u].pc \/ (u = processes[n] /\ Alive(u))
    BY <1>0, <1>3, <2>1 DEF StopTerminates, AliveIn, UnitType
  <2> QED BY <1>0, <2>2 DEF ClosingInv
<1>4. CASE UNCHANGED unit
  BY <1>0, <1>4 DEF ClosingInv
<1> QED BY <1>1, <1>2, <1>3, <1>4

LEMMA NextClosing == PlumberInv /\ ClosingInv /\ [Next]_vars => ClosingInv'
<1> SUFFICES ASSUME PlumberInv, ClosingInv, [Next]_vars PROVE ClosingInv'
  OBVIOUS
<1> USE DEF OnlyLateRemain, Alive
<1>0. /\ TypeOK /\ Main \in Threads /\ \A h \in Handlers : h \in Threads /\ h # Main
      /\ thread \in [Threads -> ThreadType]
  BY PlumberAssumption DEF PlumberInv, TypeOK, Threads
<1>1. CASE UNCHANGED vars
  BY <1>1 DEF vars, ClosingInv
<1>2. ASSUME NEW t \in Threads, CallStep(t) PROVE ClosingInv'
  <2>1. server' = server /\ thread'[Main].op \in {"none", thread[Main].op}
    BY <1>0, <1>2, CallThread
  <2> QED BY <1>2, <2>1, StopLeavesNone, HandlerCallsLate DEF ClosingInv
<1>3. ASSUME NEW h \in Handlers, NEW op, NEW ns, Request(h, op, ns) PROVE ClosingInv'
  BY <1>0, <1>3 DEF Request, ClosingInv
<1>4. CASE MainStep
  BY <1>4 DEF MainStep, MainServes, MainReturns, MainExits, ClosingInv
<1>5. CASE Interrupt
  <2>1. CASE server = "serving"
    <3> DEFINE all == [Idle EXCEPT !.op = "stop", !.todo = Names]
    <3>1. all.op = "stop" /\ all.todo = Names
      BY DEF Idle
    <3>2. thread'[Main] = all /\ UNCHANGED unit
      BY <1>0, <1>5, <2>1 DEF Interrupt
    <3>3. \A u \in Units : Alive(u) => unit[u].name \in Names
      BY DEF PlumberInv, RegisteredInv
    <3> HIDE DEF all
    <3> QED BY <3>1, <3>2, <3>3 DEF ClosingInv
  <2>2. CASE server # "serving"
    BY <1>5, <2>2 DEF Interrupt, ClosingInv
  <2> QED BY <2>1, <2>2
<1>6. ASSUME NEW u \in Units, UnitAction(u) PROVE ClosingInv'
  <2>1. UNCHANGED <<server, thread>> /\ unit \in [Units -> UnitType]
    BY <1>0, <1>6 DEF TypeOK, UnitAction, UnitRuns, SendReport, ReporterRaises, UnitEnds,
                      UnitStep, UnitExits, UnitKilled, UnitCrashes
  <2>2. \A v \in Units :
          Alive(v)' => /\ Alive(v)
                       /\ unit'[v].name = unit[v].name /\ unit'[v].late = unit[v].late
    BY <1>6, <2>1, UnitChanges
  <2> QED BY <2>1, <2>2 DEF ClosingInv
<1>7. ASSUME NEW r \in posts, RecordStatistics(r) PROVE ClosingInv'
  BY <1>7 DEF RecordStatistics, ClosingInv
<1> QED BY <1>1, <1>2, <1>3, <1>4, <1>5, <1>6, <1>7 DEF Next, UnitAction

\* What ShutdownEnds rests on: when stop_all() (cli.py:214-216) has returned, no unit is
\* left but those started after it had stopped their pipeline.
THEOREM StopAllReaches == Spec => []OnlyLateRemain
<1>1. Init => ClosingInv
  BY DEF Init, ClosingInv, OnlyLateRemain
<1>2. ClosingInv => OnlyLateRemain
  BY DEF ClosingInv
<1> QED BY <1>1, <1>2, NextClosing, PlumberInvariant, PTL DEF Spec

-----------------------------------------------------------------------------
(***************************************************************************)
(* The refinement: a step starts a unit for a pipeline that has none, ends *)
(* one, or leaves every pipeline with the units it has.                    *)
(***************************************************************************)

UnitsOf(n) == {u \in Units : Alive(u) /\ unit[u].name = n}
OneUnit == \A n \in Names : \A u, v \in UnitsOf(n) : u = v
units == [n \in Names |-> UnitsOf(n)]

LEMMA SpawnEnters ==
  ASSUME PlumberInv, NEW t \in Threads, NEW n \in Names, NEW u \in Units, StartSpawns(t, n, u)
  PROVE  /\ UnitsOf(n) = {}
         /\ UnitsOf(n)' = {u}
         /\ \A m \in Names : m # n => UnitsOf(m)' = UnitsOf(m)
<1>1. /\ lock = None /\ None \notin Threads
      /\ thread[t] # Idle /\ ~AliveIn(n) /\ ~Alive(u)
  BY PlumberAssumption DEF StartSpawns, Calls, Unused, Idle
<1>2. UnitsOf(n) = {}
  <2> SUFFICES ASSUME NEW v \in Units, Alive(v), unit[v].name = n PROVE FALSE
    BY DEF UnitsOf
  <2>1. processes[n] = v
    BY <1>1 DEF PlumberInv, Supervised
  <2> QED BY <1>1, <2>1, PlumberAssumption DEF AliveIn
<1>3. /\ unit'[u].name = n /\ Alive(u)'
      /\ \A v \in Units : v # u => unit'[v] = unit[v]
  BY DEF StartSpawns, PlumberInv, TypeOK, NewUnit, NoUnit, Alive
<1>4. UnitsOf(n)' = {u}
  BY <1>2, <1>3 DEF UnitsOf, Alive
<1>5. \A m \in Names : m # n => UnitsOf(m)' = UnitsOf(m)
  BY <1>1, <1>3 DEF UnitsOf, Alive
<1> QED BY <1>2, <1>4, <1>5

\* Of the other steps, one ends a unit at most.
LEMMA OthersEnd ==
  ASSUME PlumberInv, [Next]_vars,
         ~ \E t \in Threads, n \in Names, u \in Units : StartSpawns(t, n, u)
  PROVE  \/ \A n \in Names : UnitsOf(n)' = UnitsOf(n)
         \/ \E u \in Units : Alive(u) /\ \A n \in Names : UnitsOf(n)' = UnitsOf(n) \ {u}
<1> USE DEF UnitsOf, Alive
<1>0. unit \in [Units -> UnitType]
  BY DEF PlumberInv, TypeOK
<1>1. CASE UNCHANGED unit
  BY <1>1
<1>2. ASSUME NEW h \in Handlers, NEW op, NEW ns, Request(h, op, ns) PROVE UNCHANGED unit
  BY <1>2 DEF Request
<1>3. ASSUME NEW r \in posts, RecordStatistics(r) PROVE UNCHANGED unit
  BY <1>3 DEF RecordStatistics
<1>4. CASE MainStep \/ Interrupt
  BY <1>1, <1>4 DEF MainStep, MainServes, MainReturns, MainExits, Interrupt
<1>5. ASSUME NEW t \in Threads, NEW n \in Names, StopTerminates(t, n)
      PROVE  \A m \in Names : UnitsOf(m)' = UnitsOf(m)
  <2>1. processes[n] \in Units /\ Alive(processes[n])
    BY <1>5 DEF StopTerminates, AliveIn, PlumberInv, TypeOK
  <2>2. /\ unit'[processes[n]].pc = "terminated"
        /\ \A v \in Units : unit'[v].name = unit[v].name
        /\ \A v \in Units : v # processes[n] => unit'[v].pc = unit[v].pc
    BY <1>0, <1>5, <2>1 DEF StopTerminates, UnitType
  <2> QED BY <2>1, <2>2
<1>6. ASSUME NEW t \in Threads, CallStep(t)
      PROVE  \A m \in Names : UnitsOf(m)' = UnitsOf(m)
  BY <1>5, <1>6 DEF CallStep, StartFinds, StartRecords, StopFinds, StopJoins
<1>7. ASSUME NEW u \in Units,
             UnitAction(u)
      PROVE  \/ \A n \in Names : UnitsOf(n)' = UnitsOf(n)
             \/ Alive(u) /\ \A n \in Names : UnitsOf(n)' = UnitsOf(n) \ {u}
  <2>1. \A v \in Units : v # u => unit'[v] = unit[v]
    BY <1>0, <1>7, UnitChanges
  <2>2. unit'[u].name = unit[u].name /\ Alive(u)
    BY <1>0, <1>7, UnitChanges
  <2>3. CASE Alive(u)'
    BY <2>1, <2>2, <2>3
  <2>4. CASE ~Alive(u)'
    BY <2>1, <2>2, <2>4
  <2> QED BY <2>3, <2>4
<1>8. CASE UNCHANGED vars
  BY <1>1, <1>8 DEF vars
<1> QED BY <1>1, <1>2, <1>3, <1>4, <1>6, <1>7, <1>8 DEF Next, UnitAction

LEMMA StepRefines ==
  ASSUME PlumberInv, OneUnit, [Next]_vars
  PROVE  OneUnit' /\ [Single!Next]_units
<1>1. ASSUME NEW t \in Threads, NEW n \in Names, NEW u \in Units, StartSpawns(t, n, u)
      PROVE  OneUnit' /\ [Single!Next]_units
  <2>1. /\ UnitsOf(n) = {} /\ UnitsOf(n)' = {u}
        /\ \A m \in Names : m # n => UnitsOf(m)' = UnitsOf(m)
    BY <1>1, SpawnEnters
  <2>2. OneUnit'
    BY <2>1 DEF OneUnit
  <2>3. [m \in Names |-> UnitsOf(m)]' = [[m \in Names |-> UnitsOf(m)] EXCEPT ![n] = {u}]
    BY <2>1
  <2>4. Single!Enter(n, u)
    BY <2>1, <2>3 DEF Single!Enter, UnitsOf
  <2> QED BY <2>2, <2>4 DEF Single!Next
<1>2. ASSUME \A n \in Names : UnitsOf(n)' = UnitsOf(n)
      PROVE  OneUnit' /\ [Single!Next]_units
  BY <1>2 DEF OneUnit, units
<1>3. ASSUME NEW u \in Units, Alive(u), \A n \in Names : UnitsOf(n)' = UnitsOf(n) \ {u}
      PROVE  OneUnit' /\ [Single!Next]_units
  <2>1. OneUnit'
    BY <1>3 DEF OneUnit
  <2>2. PICK m \in Names : unit[u].name = m /\ u \in UnitsOf(m)
    BY <1>3 DEF PlumberInv, RegisteredInv, UnitsOf
  <2>3. UnitsOf(m)' = {}
    BY <1>3, <2>2 DEF OneUnit
  <2>4. \A n \in Names : n # m => UnitsOf(n)' = UnitsOf(n)
    <3>1. \A n \in Names : n # m => u \notin UnitsOf(n)
      BY <2>2 DEF UnitsOf
    <3> QED BY <1>3, <3>1
  <2>5. [n \in Names |-> UnitsOf(n)]' = [[n \in Names |-> UnitsOf(n)] EXCEPT ![m] = {}]
    BY <2>2, <2>3, <2>4
  <2>6. Single!Leave(m)
    BY <2>2, <2>5 DEF Single!Leave, UnitsOf
  <2> QED BY <2>1, <2>2, <2>6 DEF Single!Next
<1> QED BY <1>1, <1>2, <1>3, OthersEnd

\* The plumber implements SingleInstance: no two units of a pipeline are alive, whoever
\* asks for it, whoever ends, and however main() ends.
THEOREM PlumberRefines == Spec => ImplementsSingleInstance
<1>1. Init => OneUnit /\ Single!Init
  BY DEF Init, OneUnit, Single!Init, UnitsOf, Alive, NoUnit
<1>2. PlumberInv /\ OneUnit /\ [Next]_vars => OneUnit' /\ [Single!Next]_units
  BY StepRefines
<1> QED BY <1>1, <1>2, PlumberInvariant, PTL
        DEF Spec, ImplementsSingleInstance, Single!Spec, units, UnitsOf

=============================================================================
