------------------------------- MODULE Plumber -------------------------------
(***************************************************************************)
(* The plumber (src/plumber/cli.py): an HTTP server whose handler threads  *)
(* start and stop one process, a unit, for each pipeline, and keep the     *)
(* statistics the units report; and the entry point of the units           *)
(* (src/nvidia_pipe/cli.py) as far as the plumber sees it.                 *)
(*                                                                         *)
(* A unit runs its sender's worker as a process of its own.  Whoever is    *)
(* terminated runs no "finally", and its children outlive it: the platform *)
(* of the project ends a process and nothing else.  terminate() works, so  *)
(* that the kill() behind it is left out.                                  *)
(***************************************************************************)
EXTENDS Naturals, FiniteSets

CONSTANTS
  Names,          \* the configured pipelines
  Units,          \* processes; one that is forgotten may stand for a new one
  Handlers,       \* threads of the HTTP server that may be at work at once
  Main,           \* the main thread
  None,           \* no unit, nobody
  MaxReports,     \* snapshot numbers; later snapshots all have the last one
  Faults          \* what may go wrong in a run

Threads == Handlers \cup {Main}
FaultKinds == {"bind", "crash", "reporter"}

ASSUME PlumberAssumption ==
  /\ None \notin Units \cup Names \cup Threads
  /\ Main \notin Handlers
  /\ MaxReports \in Nat \ {0}
  /\ Faults \subseteq FaultKinds

VARIABLES
  server,         \* what main() is doing
  lock,           \* who holds PipelineManager._lock
  thread,         \* the calls of start(), start_all(), stop() and stop_all()
  processes,      \* _processes
  stopped,        \* _stopped
  statistics,     \* _statistics
  posts,          \* reports that are with a handler, or on the way to one
  unit            \* the processes of the pipelines

managerVars == <<processes, stopped, statistics>>
vars == <<server, lock, thread, managerVars, posts, unit>>

Report == [unit : Units, n : 1 .. MaxReports]
Empty == [unit |-> None, n |-> 0]         \* _empty_statistics

\* at: the pipeline it holds the lock for; unit: the process it has spawned for it.
ThreadType == [op : {"none", "start", "stop"}, todo : SUBSET Names,
               at : Names \cup {None}, unit : Units \cup {None}]

Idle == [op |-> "none", todo |-> {}, at |-> None, unit |-> None]

\* worker: the worker of its sender is there; reporter: its reporter thread is; made:
\* snapshots it has taken; late: it was started when stop_all() had done with its
\* pipeline, which is history that nothing in the code knows of.
NoUnit == [pc |-> "none", name |-> None, worker |-> FALSE, reporter |-> FALSE, made |-> 0, late |-> FALSE]

UnitType ==
  [pc : {"none", "starting", "running", "ending", "terminated", "killed", "exited"},
   name : Names \cup {None}, worker : BOOLEAN, reporter : BOOLEAN, made : 0 .. MaxReports, late : BOOLEAN]

Alive(u) == unit[u].pc \notin {"none", "killed", "exited"}
AliveIn(n) == processes[n] # None /\ Alive(processes[n])

TypeOK ==
  /\ server \in {"starting", "serving", "closing", "exiting", "exited"}
  /\ lock \in Threads \cup {None}
  /\ thread \in [Threads -> ThreadType]
  /\ processes \in [Names -> Units \cup {None}]
  /\ stopped \subseteq Names
  /\ statistics \in [Names -> Report \cup {Empty}]
  /\ posts \subseteq Report
  /\ unit \in [Units -> UnitType]
  /\ \A t \in Threads : lock = t <=> thread[t].at # None

-----------------------------------------------------------------------------
(***************************************************************************)
(* The calls of the manager.  Each takes the lock for one pipeline at a    *)
(* time; start_all() and stop_all() take it once for each of theirs.       *)
(***************************************************************************)

Done(t, n) ==
  LET rest == thread[t].todo \ {n} IN
  thread' = [thread EXCEPT ![t] = IF rest = {} THEN Idle
                                  ELSE [Idle EXCEPT !.op = thread[t].op, !.todo = rest]]

Calls(t, op, n) ==
  server # "exited" /\ thread[t].op = op /\ n \in thread[t].todo

\* A handler's thread, or the main thread in start_configured_pipelines.
Request(h, op, ns) ==
  /\ server = "serving" /\ thread[h] = Idle
  /\ thread' = [thread EXCEPT ![h] = [Idle EXCEPT !.op = op, !.todo = ns]]
  /\ UNCHANGED <<server, lock, managerVars, posts, unit>>

\* start() finds the pipeline running.
StartFinds(t, n) ==
  /\ Calls(t, "start", n) /\ lock = None
  /\ AliveIn(n)
  /\ Done(t, n)
  /\ UNCHANGED <<server, lock, managerVars, posts, unit>>

\* A process the manager has forgotten, with no report on the way.
Unused(u) ==
  /\ ~Alive(u)
  /\ \A n \in Names : processes[n] # u
  /\ \A r \in posts : r.unit # u

\* stop_all() has come by the pipeline, or main() is past it.
Passed(n) == server \in {"closing", "exiting"} /\ n \notin thread[Main].todo

\* The reporter is started before the pipeline.
NewUnit(n) == [NoUnit EXCEPT !.pc = "starting", !.name = n, !.reporter = TRUE, !.late = Passed(n)]

\* Mutant: a pipeline that runs is started again.
StartSpawnsAgain(t, n, u) ==
  /\ Calls(t, "start", n) /\ lock = None
  /\ Unused(u)
  /\ unit' = [unit EXCEPT ![u] = NewUnit(n)]
  /\ thread' = [thread EXCEPT ![t] = [@ EXCEPT !.at = n, !.unit = u]]
  /\ lock' = t
  /\ UNCHANGED <<server, managerVars, posts>>

StartSpawns(t, n, u) ==
  /\ Calls(t, "start", n) /\ lock = None
  /\ ~AliveIn(n)
  /\ Unused(u)
  /\ unit' = [unit EXCEPT ![u] = NewUnit(n)]
  /\ thread' = [thread EXCEPT ![t] = [@ EXCEPT !.at = n, !.unit = u]]
  /\ lock' = t
  /\ UNCHANGED <<server, managerVars, posts>>

\* Mutant: the pipeline stays in the set of those that were stopped.
StartRecordsOnly(t, n) ==
  /\ Calls(t, "start", n) /\ lock = t /\ thread[t].at = n
  /\ processes' = [processes EXCEPT ![n] = thread[t].unit]
  /\ statistics' = [statistics EXCEPT ![n] = Empty]
  /\ lock' = None
  /\ Done(t, n)
  /\ UNCHANGED <<server, stopped, posts, unit>>

StartRecords(t, n) ==
  /\ Calls(t, "start", n) /\ lock = t /\ thread[t].at = n
  /\ processes' = [processes EXCEPT ![n] = thread[t].unit]
  /\ stopped' = stopped \ {n}
  /\ statistics' = [statistics EXCEPT ![n] = Empty]
  /\ lock' = None
  /\ Done(t, n)
  /\ UNCHANGED <<server, posts, unit>>

\* Mutant: a unit that is not up yet counts as not running.
StopFindsUnready(t, n) ==
  /\ Calls(t, "stop", n) /\ lock = None
  /\ AliveIn(n) => unit[processes[n]].pc = "starting"
  /\ stopped' = stopped \cup {n}
  /\ Done(t, n)
  /\ UNCHANGED <<server, lock, processes, statistics, posts, unit>>

StopFinds(t, n) ==
  /\ Calls(t, "stop", n) /\ lock = None
  /\ ~AliveIn(n)
  /\ stopped' = stopped \cup {n}
  /\ Done(t, n)
  /\ UNCHANGED <<server, lock, processes, statistics, posts, unit>>

\* Mutant: the unit is waited for and not terminated.
StopJoinsOnly(t, n) ==
  /\ Calls(t, "stop", n) /\ lock = None
  /\ AliveIn(n)
  /\ stopped' = stopped \cup {n}
  /\ thread' = [thread EXCEPT ![t].at = n]
  /\ lock' = t
  /\ UNCHANGED <<server, processes, statistics, posts, unit>>

StopTerminates(t, n) ==
  /\ Calls(t, "stop", n) /\ lock = None
  /\ AliveIn(n)
  /\ stopped' = stopped \cup {n}
  /\ unit' = [unit EXCEPT ![processes[n]].pc = "terminated"]
  /\ thread' = [thread EXCEPT ![t].at = n]
  /\ lock' = t
  /\ UNCHANGED <<server, processes, statistics, posts>>

\* Mutant: the call returns with the lock.
StopJoinsLocked(t, n) ==
  /\ Calls(t, "stop", n) /\ lock = t /\ thread[t].at = n
  /\ ~AliveIn(n)
  /\ Done(t, n)
  /\ UNCHANGED <<server, lock, managerVars, posts, unit>>

StopJoins(t, n) ==
  /\ Calls(t, "stop", n) /\ lock = t /\ thread[t].at = n
  /\ ~AliveIn(n)
  /\ lock' = None
  /\ Done(t, n)
  /\ UNCHANGED <<server, managerVars, posts, unit>>

CallStep(t) ==
  \E n \in Names :
    \/ StartFinds(t, n)
    \/ \E u \in Units : StartSpawns(t, n, u)
    \/ StartRecords(t, n)
    \/ StopFinds(t, n)
    \/ StopTerminates(t, n)
    \/ StopJoins(t, n)

-----------------------------------------------------------------------------
(***************************************************************************)
(* main().  Handlers are daemon threads: the server is closed without      *)
(* waiting for them, and the interpreter then waits for every unit.        *)
(***************************************************************************)

MainServes ==
  /\ server = "starting" /\ thread[Main] = Idle
  /\ \/ server' = "serving"
     \/ "bind" \in Faults /\ server' = "exiting"
  /\ UNCHANGED <<lock, thread, managerVars, posts, unit>>

\* The first Ctrl+C, which main() only expects while the server serves. A second one,
\* in the middle of stop_all(), is left out.
Interrupt ==
  \/ /\ server = "serving"
     /\ server' = "closing"
     /\ thread' = [thread EXCEPT ![Main] = [Idle EXCEPT !.op = "stop", !.todo = Names]]
     /\ UNCHANGED <<lock, managerVars, posts, unit>>
  \/ /\ server = "starting"
     /\ server' = "exiting"
     /\ thread' = [thread EXCEPT ![Main] = Idle]
     /\ lock' = None
     /\ UNCHANGED <<managerVars, posts, unit>>

MainReturns ==
  /\ server = "closing" /\ thread[Main] = Idle
  /\ server' = "exiting"
  /\ UNCHANGED <<lock, thread, managerVars, posts, unit>>

\* multiprocessing joins the processes that are left.
MainExits ==
  /\ server = "exiting"
  /\ \A u \in Units : ~Alive(u)
  /\ server' = "exited"
  /\ lock' = None
  /\ thread' = [t \in Threads |-> Idle]
  /\ posts' = {}
  /\ UNCHANGED <<managerVars, unit>>

MainStep == MainServes \/ MainReturns \/ MainExits

-----------------------------------------------------------------------------
(***************************************************************************)
(* The units and their reports.                                            *)
(***************************************************************************)

Snapshot(u) == IF unit[u].made < MaxReports THEN unit[u].made + 1 ELSE MaxReports

\* Nobody listens unless the server serves.
Posted(u) == IF server = "serving" THEN posts \cup {[unit |-> u, n |-> Snapshot(u)]}
                                   ELSE posts

\* The sender and its worker are started.
UnitRuns(u) ==
  /\ unit[u].pc = "starting"
  /\ unit' = [unit EXCEPT ![u].pc = "running", ![u].worker = TRUE]
  /\ UNCHANGED <<server, lock, thread, managerVars, posts>>

\* Mutant: a report of a unit that has sent one is a duplicate.
SendReportOnce(u) ==
  /\ unit[u].pc \in {"starting", "running"} /\ unit[u].reporter
  /\ unit[u].made = 0
  /\ unit' = [unit EXCEPT ![u].made = Snapshot(u)]
  /\ posts' = Posted(u)
  /\ UNCHANGED <<server, lock, thread, managerVars>>

\* The reporter waits a second for the answer at most: the report before may still
\* be on its way, or with a handler that waits for the lock.
SendReport(u) ==
  /\ unit[u].pc \in {"starting", "running"} /\ unit[u].reporter
  /\ unit' = [unit EXCEPT ![u].made = Snapshot(u)]
  /\ posts' = Posted(u)
  /\ UNCHANGED <<server, lock, thread, managerVars>>

\* The snapshot raises while the sender replaces its worker (send.py:110, ReporterSurvives
\* in RtspSender): only what the connection raises is caught, and the thread is gone.
ReporterRaises(u) ==
  /\ "reporter" \in Faults
  /\ unit[u].pc = "running" /\ unit[u].reporter
  /\ unit' = [unit EXCEPT ![u].reporter = FALSE]
  /\ UNCHANGED <<server, lock, thread, managerVars, posts>>

\* Each report has a handler of its own: they come to the lock in any order.
RecordStatistics(r) ==
  /\ r \in posts /\ lock = None
  /\ statistics' = [statistics EXCEPT ![unit[r.unit].name] = r]
  /\ posts' = posts \ {r}
  /\ UNCHANGED <<server, lock, thread, processes, stopped, unit>>

\* The pipeline ends, is interrupted or raises: the "finally" of the entry point
\* stops the reporter, whose last report may still be on its way, and sends one more,
\* unless its snapshot raises as the reporter's may.
UnitEnds(u) ==
  /\ unit[u].pc \in {"starting", "running"}
  /\ unit' = [unit EXCEPT ![u].pc = "ending", ![u].reporter = FALSE, ![u].made = Snapshot(u)]
  /\ posts' = Posted(u) \/ ("reporter" \in Faults /\ unit[u].worker /\ posts' = posts)
  /\ UNCHANGED <<server, lock, thread, managerVars>>

\* What is left of a process is its name, and perhaps its worker.
Gone(u, pc, worker) == [NoUnit EXCEPT !.pc = pc, !.name = unit[u].name, !.worker = worker]

\* The sender is stopped, and its worker with it, or ended as a daemon with the process.
UnitExits(u) ==
  /\ unit[u].pc = "ending"
  /\ unit' = [unit EXCEPT ![u] = Gone(u, "exited", FALSE)]
  /\ UNCHANGED <<server, lock, thread, managerVars, posts>>

\* No "finally" runs, and the worker stays.
UnitKilled(u) ==
  /\ unit[u].pc = "terminated"
  /\ unit' = [unit EXCEPT ![u] = Gone(u, "killed", unit[u].worker)]
  /\ UNCHANGED <<server, lock, thread, managerVars, posts>>

UnitCrashes(u) ==
  /\ "crash" \in Faults /\ unit[u].pc \in {"starting", "running", "ending"}
  /\ unit' = [unit EXCEPT ![u] = Gone(u, "exited", unit[u].worker)]
  /\ UNCHANGED <<server, lock, thread, managerVars, posts>>

UnitStep(u) == UnitExits(u) \/ UnitKilled(u)

-----------------------------------------------------------------------------

\* auto_start decides whether the main thread begins with start_all().
Init ==
  /\ server = "starting"
  /\ lock = None
  /\ \E auto \in {Idle, [Idle EXCEPT !.op = "start", !.todo = Names]} :
       thread = [t \in Threads |-> IF t = Main THEN auto ELSE Idle]
  /\ processes = [n \in Names |-> None]
  /\ stopped = {}
  /\ statistics = [n \in Names |-> Empty]
  /\ posts = {}
  /\ unit = [u \in Units |-> NoUnit]

Next ==
  \/ \E h \in Handlers :
       Request(h, "start", Names)
         \/ \E n \in Names : Request(h, "start", {n}) \/ Request(h, "stop", {n})
  \/ \E t \in Threads : CallStep(t)
  \/ MainStep
  \/ Interrupt
  \/ \E u \in Units :
       \/ UnitRuns(u)
       \/ SendReport(u)
       \/ ReporterRaises(u)
       \/ UnitEnds(u)
       \/ UnitStep(u)
       \/ UnitCrashes(u)
  \/ \E r \in posts : RecordStatistics(r)

Spec == Init /\ [][Next]_vars

(***************************************************************************)
(* Threads and processes run, and whoever waits for the lock gets it in    *)
(* the end.  A reporter goes on reporting as long as it is there, and the  *)
(* reports reach a server that serves.  Requests, Ctrl+C, the end of a     *)
(* pipeline, a reporter that raises and timeouts are up to the environment.*)
(***************************************************************************)
FairSpec ==
  /\ Spec
  /\ \A t \in Threads : SF_vars(CallStep(t))
  /\ \A r \in Report : SF_vars(RecordStatistics(r))
  /\ \A u \in Units : WF_vars(UnitStep(u)) /\ WF_vars(SendReport(u))
  /\ WF_vars(MainStep)

-----------------------------------------------------------------------------
(***************************************************************************)
(* Safety.                                                                 *)
(***************************************************************************)

\* start() (cli.py:145) over requests, start_all and the ends of units: no two
\* units of one pipeline are alive.
Single == INSTANCE SingleInstance WITH
  Ids <- Names, Pids <- Units,
  running <- [n \in Names |-> {u \in Units : Alive(u) /\ unit[u].name = n}]

ImplementsSingleInstance == Single!Spec

\* Every unit that lives can be stopped: it is the one the manager has under its
\* name, or a start() under way is about to enter it; otherwise main() was given up
\* in the middle of start_all(), and nobody starts anything any more.
Supervised ==
  \A u \in Units :
    Alive(u) => \/ processes[unit[u].name] = u
                \/ \E t \in Threads : lock = t /\ thread[t].unit = u
                \/ server \in {"exiting", "exited"} /\ \A t \in Threads : thread[t] = Idle

\* status() (cli.py:104): between calls, a pipeline recorded as stopped does not
\* run, and one that was stopped is recorded as such, not as failed.
StateIsHonest ==
  lock = None =>
    \A n \in Names : processes[n] # None =>
      /\ n \in stopped => ~AliveIn(n)
      /\ unit[processes[n]].pc = "killed" => n \in stopped

-----------------------------------------------------------------------------
(***************************************************************************)
(* Liveness, under FairSpec.                                               *)
(***************************************************************************)

\* Every call returns, although stop() waits for a unit with the lock in its
\* hands, and that unit for an answer that needs the lock.
CallsReturn ==
  \A t \in Threads : (thread[t].op # "none") ~> (thread[t].op = "none")

\* A late report, perhaps of the unit before, may overwrite a newer one, or the
\* reset of start(); while a unit runs and reports, its latest is shown again and
\* again. A unit whose reporter has raised (nvidia_pipe/cli.py:99) runs on without
\* one, and an old report may then stay: that is the exception.
LatestIsShown ==
  \A n \in Names, u \in Units :
    <>[](server = "serving" /\ processes[n] = u /\ unit[u].pc = "running" /\ unit[u].reporter)
      => []<>(statistics[n] = [unit |-> u, n |-> MaxReports])

\* Ctrl+C ends the plumber, whatever runs and whatever the handlers start meanwhile
\* (cli.py:324-328): nothing keeps it but a unit that a handler started after
\* stop_all() had stopped that pipeline.
ShutdownEnds ==
  (server = "closing") ~>
    (server = "exited" \/ (server = "exiting" /\ \E u \in Units : Alive(u) /\ unit[u].late))

-----------------------------------------------------------------------------
(***************************************************************************)
(* What the documents say and the code does not do.                        *)
(***************************************************************************)

\* 010, scenario 1.2: a stop that has returned has cleaned the pipeline up.
StopCleansUp ==
  \A n \in stopped : lock = None /\ processes[n] # None => ~unit[processes[n]].worker

=============================================================================
