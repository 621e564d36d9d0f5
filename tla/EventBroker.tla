---------------------------- MODULE EventBroker ----------------------------
(***************************************************************************)
(* The way of an event from a thread of the conductor to a browser:        *)
(* process_event_broker.py, and the two WebSocket handlers of              *)
(* http_server.py, which run in the event loop.                            *)
(*                                                                         *)
(* A thread that publishes takes a copy of the subscribers under the lock  *)
(* and then schedules one _putLatest per copy, which the event loop runs   *)
(* in the order of scheduling. Each session has a bounded queue, from      *)
(* which its handler sends to the browser.                                 *)
(***************************************************************************)
EXTENDS Naturals, Sequences, SequencesExt

CONSTANTS
  Sessions,       \* browser sessions
  Publishers,     \* threads that publish
  Events,         \* what is published
  None,           \* no event
  EventCapacity   \* max_queue_size

VARIABLES
  subscribers,  \* the sessions whose queue is in the broker's set
  events,       \* the queue of each session
  callbacks,    \* the calls of _putLatest the event loop has yet to run
  publishing,   \* per thread, the event and the copies it has yet to schedule
  inHand,       \* per session, the event its handler is about to send
  present       \* the sessions whose browser is still there

brokerVars == <<subscribers, events, callbacks, publishing, inHand, present>>

Quiet == [event |-> None, to |-> {}]

BrokerInit ==
  /\ subscribers = {}
  /\ events = [s \in Sessions |-> <<>>]
  /\ callbacks = <<>>
  /\ publishing = [t \in Publishers |-> Quiet]
  /\ inHand = [s \in Sessions |-> None]
  /\ present = {}

-----------------------------------------------------------------------------
\* The part of publish() and publishStatus() under the lock.
Announce(t, e) ==
  /\ publishing[t] = Quiet
  /\ publishing' = [publishing EXCEPT
       ![t] = IF subscribers = {} THEN Quiet ELSE [event |-> e, to |-> subscribers]]

\* loop.call_soon_threadsafe(_putLatest, event_queue, event), for one of the copies.
Schedule(t) ==
  /\ \E s \in publishing[t].to :
       /\ callbacks' = Append(callbacks, [session |-> s, event |-> publishing[t].event])
       /\ publishing' = [publishing EXCEPT
            ![t] = IF @.to = {s} THEN Quiet ELSE [event |-> @.event, to |-> @.to \ {s}]]
  /\ UNCHANGED <<subscribers, events, inHand, present>>

\* Mutant: a full queue loses the event that comes.
PutLatestIfRoom ==
  /\ callbacks # <<>>
  /\ LET s == Head(callbacks).session
     IN  events' = [events EXCEPT ![s] =
           IF s \in subscribers /\ Len(@) < EventCapacity
           THEN Append(@, Head(callbacks).event) ELSE @]
  /\ callbacks' = Tail(callbacks)
  /\ UNCHANGED <<subscribers, publishing, inHand, present>>

\* _putLatest(): a full queue loses its oldest event. The queue of a session
\* that has gone is filled in vain, which nobody sees.
PutLatest ==
  /\ callbacks # <<>>
  /\ LET s == Head(callbacks).session
         kept == IF Len(events[s]) = EventCapacity THEN Tail(events[s]) ELSE events[s]
     IN  events' = [events EXCEPT ![s] =
           IF s \in subscribers THEN Append(kept, Head(callbacks).event) ELSE @]
  /\ callbacks' = Tail(callbacks)
  /\ UNCHANGED <<subscribers, publishing, inHand, present>>

-----------------------------------------------------------------------------
\* What is on its way to the queue of a session.
Underway(s) ==
  \/ \E k \in DOMAIN callbacks : callbacks[k].session = s
  \/ \E t \in Publishers : s \in publishing[t].to

\* A browser opens the socket and the handler subscribes with a new queue. A name
\* is used for another session when nothing refers to the queue before.
Subscribe(s, history) ==
  /\ s \notin present \cup subscribers
  /\ ~Underway(s)
  /\ present' = present \cup {s}
  /\ subscribers' = subscribers \cup {s}
  /\ events' = [events EXCEPT ![s] = history]
  /\ UNCHANGED <<callbacks, publishing, inHand>>

TakeEvent(s) ==
  /\ s \in subscribers
  /\ inHand[s] = None
  /\ events[s] # <<>>
  /\ inHand' = [inHand EXCEPT ![s] = Head(events[s])]
  /\ events' = [events EXCEPT ![s] = Tail(@)]
  /\ UNCHANGED <<subscribers, callbacks, publishing, present>>

\* send_json() to a browser that is there.
SendEvent(s) ==
  /\ inHand[s] # None
  /\ s \in present
  /\ inHand' = [inHand EXCEPT ![s] = None]
  /\ UNCHANGED <<subscribers, events, callbacks, publishing, present>>

\* Mutant: the queue stays with the broker.
SendDisconnectsOnly(s) ==
  /\ inHand[s] # None
  /\ s \notin present
  /\ inHand' = [inHand EXCEPT ![s] = None]
  /\ UNCHANGED <<subscribers, events, callbacks, publishing, present>>

\* send_json() to one that is not: WebSocketDisconnect, and unsubscribe(). A
\* handler without an event does not notice.
SendDisconnects(s) ==
  /\ inHand[s] # None
  /\ s \notin present
  /\ inHand' = [inHand EXCEPT ![s] = None]
  /\ subscribers' = subscribers \ {s}
  /\ events' = [events EXCEPT ![s] = <<>>]
  /\ UNCHANGED <<callbacks, publishing, present>>

BrowserLeaves(s) ==
  /\ s \in present
  /\ present' = present \ {s}
  /\ UNCHANGED <<subscribers, events, callbacks, publishing, inHand>>


=============================================================================
