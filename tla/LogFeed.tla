------------------------------ MODULE LogFeed ------------------------------
(***************************************************************************)
(* A log from the thread that writes it to the pages that show it: the     *)
(* relay of a stream process, its connections, the receive thread of the   *)
(* conductor (supervisor.py, _onMessage), and the event broker with its    *)
(* history.                                                                *)
(*                                                                         *)
(* An event is its place in the order of publication; published says which *)
(* log that was. The receive threads of successive connections follow each *)
(* other, so that there is one publisher.                                  *)
(***************************************************************************)
EXTENDS LogRelay

CONSTANTS Sessions, EventCapacity, Receiver, None

ASSUME FeedAssumption == EventCapacity \in Nat \ {0} /\ None \notin 0 .. MaxLogs

VARIABLES
  subscribers, events, callbacks, publishing, inHand, present,  \* as in EventBroker
  history,    \* ProcessEventBroker._history of the process
  published,  \* the logs published, in order
  shown       \* per session, the last event the browser was sent, 0 if none

Broker == INSTANCE EventBroker WITH Publishers <- {Receiver}, Events <- Logs

brokerVars == <<subscribers, events, callbacks, publishing, inHand, present>>
feedVars == <<brokerVars, history, published, shown>>
vars == <<relayVars, feedVars>>

Init ==
  /\ RelayInit
  /\ Broker!BrokerInit
  /\ history = <<>>
  /\ published = <<>>
  /\ shown = [s \in Sessions |-> 0]

-----------------------------------------------------------------------------
(***************************************************************************)
(* The receive thread: reads a log and publishes it. The history and the   *)
(* subscribers are touched under one hold of the lock.                     *)
(***************************************************************************)
Newest(seq, k) == IF Len(seq) > k THEN Tail(seq) ELSE seq

ReceiveLog ==
  /\ reading # 0
  /\ wire # <<>>
  /\ wire' = Tail(wire)
  /\ published' = Append(published, Head(wire))
  /\ history' = Newest(Append(history, Len(published')), EventCapacity)
  /\ Broker!Announce(Receiver, Len(published'))
  /\ UNCHANGED <<queueVars, sender, linkVars, reading, subscribers, events, callbacks,
                 inHand, present, shown>>

\* The process has closed its end and everything is read.
ReceiveEnd ==
  /\ reading # 0
  /\ serving # reading
  /\ wire = <<>>
  /\ publishing[Receiver] = Broker!Quiet
  /\ reading' = 0
  /\ UNCHANGED <<queueVars, sender, linkVars, wire, feedVars>>

Schedule == Broker!Schedule(Receiver) /\ UNCHANGED <<relayVars, history, published, shown>>

PutLatest == Broker!PutLatest /\ UNCHANGED <<relayVars, history, published, shown>>

\* The page is opened; subscribe() hands it the history.
OpenLogs(s) ==
  /\ Broker!Subscribe(s, history)
  /\ shown' = [shown EXCEPT ![s] = 0]
  /\ UNCHANGED <<relayVars, history, published>>

SendEvent(s) ==
  /\ Broker!SendEvent(s)
  /\ shown' = [shown EXCEPT ![s] = inHand[s]]
  /\ UNCHANGED <<relayVars, history, published>>

CloseLogs(s) == Broker!BrowserLeaves(s) /\ UNCHANGED <<relayVars, history, published, shown>>

HandlerStep(s) ==
  \/ (Broker!TakeEvent(s) \/ Broker!SendDisconnects(s))
       /\ UNCHANGED <<relayVars, history, published, shown>>
  \/ SendEvent(s)

\* The conductor ends and is started again: what was sent to it, the history and
\* the sessions are gone.
ConductorRestarts ==
  /\ reading # 0
  /\ reading' = 0
  /\ wire' = <<>>
  /\ history' = <<>>
  /\ subscribers' = {}
  /\ events' = [s \in Sessions |-> <<>>]
  /\ callbacks' = <<>>
  /\ publishing' = [t \in {Receiver} |-> Broker!Quiet]
  /\ inHand' = [s \in Sessions |-> None]
  /\ present' = {}
  /\ UNCHANGED <<queueVars, sender, linkVars, published, shown>>

Next ==
  \/ RelayStep /\ UNCHANGED feedVars
  \/ ReceiveLog
  \/ ReceiveEnd
  \/ Schedule
  \/ PutLatest
  \/ \E s \in Sessions : OpenLogs(s) \/ CloseLogs(s) \/ HandlerStep(s)
  \/ ConductorRestarts

Spec == Init /\ [][Next]_vars

FairSpec ==
  /\ Spec
  /\ WF_vars(EmitEvicts /\ UNCHANGED feedVars)
  /\ WF_vars(SenderStep /\ UNCHANGED feedVars)
  /\ WF_vars(ReadsEnd /\ UNCHANGED feedVars)
  /\ WF_vars(ReceiveLog) /\ WF_vars(ReceiveEnd) /\ WF_vars(Schedule) /\ WF_vars(PutLatest)
  /\ \A s \in Sessions : WF_vars(HandlerStep(s))

-----------------------------------------------------------------------------
(***************************************************************************)
(* Safety.                                                                 *)
(***************************************************************************)
\* What a session has yet to be sent by its handler: what is in its queue, what the
\* callbacks are to put there, and what the receive thread is to schedule.
Calls(s) == {k \in DOMAIN callbacks : callbacks[k].session = s}

Called(s) == {callbacks[k].event : k \in Calls(s)}

Announced(s) ==
  IF s \in publishing[Receiver].to THEN {publishing[Receiver].event} ELSE {}

Awaited(s) == ToSet(events[s]) \cup Called(s) \cup Announced(s)

LastSent(s) == IF inHand[s] = None THEN shown[s] ELSE inHand[s]

Precede(S, T) == \A x \in S, y \in T : x < y

\* subscribe() and publish() (process_event_broker.py:39, 69), whatever their
\* interleaving: a session is sent each event once and in the order of publication,
\* and what it has yet to be sent is, without a gap, the newest of what was published.
\* A session that awaits nothing was sent the last of it, unless the history is empty:
\* no session that subscribes during a publish() misses the event in both ways.
SessionInOrder ==
  \A s \in subscribers :
    /\ \A j, k \in DOMAIN events[s] : j < k => events[s][j] < events[s][k]
    /\ \A j, k \in Calls(s) : j < k => callbacks[j].event < callbacks[k].event
    /\ Precede(ToSet(events[s]), Called(s) \cup Announced(s))
    /\ Precede(Called(s), Announced(s))
    /\ Precede({LastSent(s)}, Awaited(s))
    /\ inHand[s] # None => shown[s] < inHand[s]
    /\ \E n \in 1 .. Len(published) + 1 : Awaited(s) = n .. Len(published)
    /\ Awaited(s) = {} => \/ LastSent(s) = Len(published)
                          \/ LastSent(s) = 0 /\ history = <<>>

One(e) == IF e \in {0, None} THEN <<>> ELSE <<e>>

\* Where a log is between its creation and its publication.
Held ==
  LET inSender == IF SenderAt("returning") /\ evicting.by = "sender" THEN <<>>
                  ELSE One(sender.log)
  IN  logs \o One(evicting.log) \o inSender \o wire

\* _sendLogs puts a log back that it could not send (cli.py:162, 168): no log is
\* published twice, or is about to be.
PublishedOnce == IsInjective(Held \o published)

\* A put() that has found the queue full (cli.py:26) takes its oldest log out.
MakesRoom(n) == evicting # NoPut /\ evicting' = NoPut /\ logs # <<>> /\ n = Head(logs)

\* Nobody loses a log but a put() that found the queue full, which drops the oldest in
\* it and no other, and a connection that is lost, with what was on it.
LostForAReason ==
  [][ \A n \in ToSet(Held) :
        \/ n \in ToSet(Held') \cup ToSet(published')
        \/ MakesRoom(n)
        \/ reading' # reading /\ n \in ToSet(wire) ]_vars

-----------------------------------------------------------------------------
(***************************************************************************)
(* Liveness, under FairSpec.                                               *)
(***************************************************************************)

\* The heartbeat thread, _sendLogs and the main thread all clear the connection
\* (cli.py:140), the last two perhaps when it has been replaced: while the conductor is
\* connected every log that waits is published, or gives way to a newer one.
LogsArrive ==
  \A n \in Logs :
    <>[](n \in ToSet(Held)) => []<>(reading = 0)

=============================================================================
