----------------------------- MODULE StatusFeed -----------------------------
(***************************************************************************)
(* A change of status, from the threads of the supervisor that write it to *)
(* the page that shows it (supervisor.py, http_server.py, index.js). The   *)
(* threads publish after they have let the lock go; the page takes an      *)
(* event as a hint and asks for the list of processes again, so that the   *)
(* order of the events does not matter, nor what they say. What the page   *)
(* then draws is left out.                                                 *)
(***************************************************************************)
EXTENDS Naturals, Sequences

CONSTANTS
  Writers,       \* threads that call _setProcessStatus
  Sessions,      \* sockets of the page, one after the other
  Fetches,       \* requests the browser has under way at a time
  EventCapacity,
  None,
  MaxCallbacks   \* a bound on what the event loop is behind with

VARIABLES
  subscribers, events, callbacks, publishing, inHand, present,  \* as in EventBroker
  status,  \* Supervisor._process_statuses of the process
  changed, \* the threads that have made a change and not published it yet
  socket,  \* the page's statusSocket, None while it waits to connect again
  fetch,   \* per request, "idle", "asked" or "answered"
  owed     \* the page had a socket when the status changed, and has not been answered since

Statuses == {"running", "stopped"}

Event == "process_status"

Broker == INSTANCE EventBroker WITH Publishers <- Writers, Events <- {Event}

brokerVars == <<subscribers, events, callbacks, publishing, inHand, present>>
pageVars == <<socket, fetch>>
vars == <<brokerVars, status, changed, pageVars, owed>>

ASSUME StatusAssumption ==
  /\ None \notin Sessions \cup {Event}
  /\ EventCapacity \in Nat \ {0}
  /\ MaxCallbacks \in Nat

\* The page loads: it asks once, and opens its socket.
Init ==
  /\ Broker!BrokerInit
  /\ status \in Statuses
  /\ changed = {}
  /\ socket = None
  /\ \E first \in Fetches : fetch = [f \in Fetches |-> IF f = first THEN "asked" ELSE "idle"]
  /\ owed = FALSE

-----------------------------------------------------------------------------
(***************************************************************************)
(* _setProcessStatus(): store the status under the lock, then publish it   *)
(* if it has changed.                                                      *)
(***************************************************************************)
Free(t) == t \notin changed /\ publishing[t] = Broker!Quiet

InTime == Len(callbacks) < MaxCallbacks

Owes(v) == owed \/ (status # v /\ socket # None)

\* Mutant: the change is published first and stored afterwards.
StoreStatusLate(t, v) ==
  /\ InTime
  /\ t \notin changed
  /\ \/ /\ Free(t)
        /\ changed' = IF status = v THEN changed ELSE changed \cup {t}
        /\ UNCHANGED <<status, owed>>
     \/ /\ publishing[t] # Broker!Quiet
        /\ status' = v
        /\ owed' = Owes(v)
        /\ UNCHANGED changed
  /\ UNCHANGED <<brokerVars, pageVars>>

StoreStatus(t, v) ==
  /\ InTime
  /\ Free(t)
  /\ status' = v
  /\ changed' = IF status = v THEN changed ELSE changed \cup {t}
  /\ owed' = Owes(v)
  /\ UNCHANGED <<brokerVars, pageVars>>

PublishStatus(t) ==
  /\ t \in changed
  /\ Broker!Announce(t, Event)
  /\ changed' = changed \ {t}
  /\ UNCHANGED <<subscribers, events, callbacks, inHand, present, status, pageVars, owed>>

Schedule(t) == Broker!Schedule(t) /\ UNCHANGED <<status, changed, pageVars, owed>>

PutLatest == Broker!PutLatest /\ UNCHANGED <<status, changed, pageVars, owed>>

-----------------------------------------------------------------------------
(***************************************************************************)
(* The page: connectStatusSocket() and refreshProcesses().                 *)
(***************************************************************************)
ConnectStatusSocket(s) ==
  /\ socket = None
  /\ Broker!Subscribe(s, <<>>)
  /\ socket' = s
  /\ UNCHANGED <<status, changed, fetch, owed>>

\* The socket closes; the page opens another one a second later.
SocketCloses ==
  /\ socket # None
  /\ Broker!BrowserLeaves(socket)
  /\ socket' = None
  /\ owed' = FALSE
  /\ UNCHANGED <<status, changed, fetch>>

\* Mutant: an event is ignored while a request is under way.
StatusEventOnce(s, f) ==
  /\ s = socket
  /\ fetch[f] = "idle"
  /\ Broker!SendEvent(s)
  /\ fetch' = IF \A g \in Fetches : fetch[g] = "idle"
              THEN [fetch EXCEPT ![f] = "asked"] ELSE fetch
  /\ UNCHANGED <<status, changed, socket, owed>>

\* An event arrives, and the page asks for the list.
StatusEvent(s, f) ==
  /\ s = socket
  /\ fetch[f] = "idle"
  /\ Broker!SendEvent(s)
  /\ fetch' = [fetch EXCEPT ![f] = "asked"]
  /\ UNCHANGED <<status, changed, socket, owed>>

\* getProcesses().
Answer(f) ==
  /\ fetch[f] = "asked"
  /\ fetch' = [fetch EXCEPT ![f] = "answered"]
  /\ owed' = FALSE
  /\ UNCHANGED <<brokerVars, status, changed, socket>>

Render(f) ==
  /\ fetch[f] = "answered"
  /\ fetch' = [fetch EXCEPT ![f] = "idle"]
  /\ UNCHANGED <<brokerVars, status, changed, socket, owed>>

HandlerStep(s) ==
  \/ (Broker!TakeEvent(s) \/ Broker!SendDisconnects(s))
       /\ UNCHANGED <<status, changed, pageVars, owed>>
  \/ \E f \in Fetches : StatusEvent(s, f)

FetchStep(f) == Answer(f) \/ Render(f)

-----------------------------------------------------------------------------
Next ==
  \/ \E t \in Writers :
       (\E v \in Statuses : StoreStatus(t, v)) \/ PublishStatus(t) \/ Schedule(t)
  \/ PutLatest
  \/ \E s \in Sessions : ConnectStatusSocket(s) \/ HandlerStep(s)
  \/ SocketCloses
  \/ \E f \in Fetches : FetchStep(f)

Spec == Init /\ [][Next]_vars

\* Threads, the event loop, the server and the browser run; when the status changes
\* and when a socket closes is up to the environment.
FairSpec ==
  /\ Spec
  /\ \A t \in Writers : WF_vars(PublishStatus(t) \/ Schedule(t))
  /\ WF_vars(PutLatest)
  /\ \A s \in Sessions : WF_vars(HandlerStep(s))
  /\ \A f \in Fetches : WF_vars(FetchStep(f))

-----------------------------------------------------------------------------
(***************************************************************************)
(* Liveness, under FairSpec.                                               *)
(***************************************************************************)

\* _setProcessStatus publishes outside its lock (supervisor.py:84) and a full queue
\* drops events, and still a page with a socket asks again after every change.
ChangeIsFetched == owed ~> ~owed

\* A handler only notices that its browser has gone when it sends (http_server.py:93):
\* while the status goes on changing, the queue of a page that has left is dropped.
LeaverIsForgotten ==
  \A s \in Sessions :
    []<>(\E t \in Writers : t \in changed)
      => (s \in subscribers \ present) ~> (s \notin subscribers)

=============================================================================
