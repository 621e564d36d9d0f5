---------------------------- MODULE StatusProofs ----------------------------
(***************************************************************************)
(* The safety that ChangeIsFetched rests on, for every number of threads,  *)
(* sockets, requests and every size of the queues: a page that is owed an  *)
(* answer has a hint on its way to it, at one stage or another.  That the  *)
(* stages are left again is liveness, which stays with TLC.                *)
(***************************************************************************)
EXTENDS StatusFeed, SequenceLemmas, TLAPS

Called(s) == \E k \in DOMAIN callbacks : callbacks[k].session = s

Announced(s) == \E t \in Writers : s \in publishing[t].to

\* A change of status is never forgotten: whatever is dropped by a full queue, published
\* late or in another order, the page asks again, or an event comes that makes it ask
\* (supervisor.py:89, process_event_broker.py:99).
HintUnderway ==
  owed =>
    \/ changed # {}
    \/ Announced(socket)
    \/ Called(socket)
    \/ events[socket] # <<>>
    \/ inHand[socket] # None
    \/ \E f \in Fetches : fetch[f] = "asked"

-----------------------------------------------------------------------------
(***************************************************************************)
(* The invariant.  A hint only reaches the page because its socket is a    *)
(* subscriber, and its handler finds it there.                             *)
(***************************************************************************)
Call == [session : Sessions, event : {Event}]

StatusTypeOK ==
  /\ subscribers \in SUBSET Sessions
  /\ events \in [Sessions -> Seq({Event})]
  /\ callbacks \in Seq(Call)
  /\ publishing \in [Writers -> {Broker!Quiet} \cup [event : {Event}, to : SUBSET Sessions]]
  /\ inHand \in [Sessions -> {None, Event}]
  /\ changed \in SUBSET Writers
  /\ socket \in Sessions \cup {None}
  /\ fetch \in [Fetches -> {"idle", "asked", "answered"}]

SocketServed == socket # None => socket \in subscribers \cap present

OwedToSocket == owed => socket # None

StatusInv == StatusTypeOK /\ SocketServed /\ OwedToSocket /\ HintUnderway

LEMMA StatusInitial == Init => StatusInv
<1>1. <<>> \in Seq({Event}) /\ <<>> \in Seq(Call)
  BY EmptySeq
<1>2. Init => StatusTypeOK
  BY <1>1 DEF Init, Broker!BrokerInit, StatusTypeOK
<1> QED BY <1>2 DEF Init, StatusInv, SocketServed, OwedToSocket, HintUnderway

\* A step that adds to the stages, and leaves the socket alone.
LEMMA HintStays ==
  ASSUME StatusInv, StatusTypeOK', UNCHANGED <<subscribers, present, socket>>,
         owed' => owed \/ changed' # {},
         changed # {} => changed' # {} \/ (socket # None => Announced(socket)'),
         socket # None /\ Announced(socket) => Announced(socket)' \/ Called(socket)',
         socket # None /\ Called(socket) => Called(socket)' \/ events'[socket] # <<>>,
         socket # None /\ events[socket] # <<>> => events'[socket] # <<>> \/ inHand'[socket] # None,
         socket # None /\ inHand[socket] # None => inHand'[socket] # None \/ \E f \in Fetches : fetch'[f] = "asked",
         (\E f \in Fetches : fetch[f] = "asked") => ~owed' \/ \E f \in Fetches : fetch'[f] = "asked",
         owed' => socket # None
  PROVE  StatusInv'
<1>1. socket' = socket /\ SocketServed' /\ OwedToSocket'
  BY DEF StatusInv, SocketServed, OwedToSocket
<1>2. HintUnderway'
  BY <1>1 DEF StatusInv, HintUnderway, Announced, Called
<1> QED BY <1>1, <1>2 DEF StatusInv
LEMMA StoreKeeps ==
  ASSUME StatusInv, NEW t \in Writers, NEW v \in Statuses, StoreStatus(t, v)
  PROVE  StatusInv'
<1>1. UNCHANGED <<subscribers, events, callbacks, publishing, inHand, present, socket, fetch>>
  BY DEF StoreStatus, brokerVars, pageVars
<1>2. /\ changed' = (IF status = v THEN changed ELSE changed \cup {t})
      /\ owed' = (owed \/ (status # v /\ socket # None))
  BY DEF StoreStatus, Owes
<1>3. StatusTypeOK'
  BY <1>1, <1>2 DEF StatusInv, StatusTypeOK
<1>4. owed' => socket # None
  BY <1>2 DEF StatusInv, OwedToSocket
<1>5. owed' => owed \/ changed' # {}
  BY <1>2
<1> QED
  BY <1>1, <1>2, <1>3, <1>4, <1>5, HintStays DEF Announced, Called

LEMMA PublishKeeps ==
  ASSUME StatusInv, NEW t \in Writers, PublishStatus(t)
  PROVE  StatusInv'
<1>1. /\ publishing[t] = Broker!Quiet
      /\ publishing' = [publishing EXCEPT ![t] =
           IF subscribers = {} THEN Broker!Quiet ELSE [event |-> Event, to |-> subscribers]]
      /\ changed' = changed \ {t}
      /\ UNCHANGED <<subscribers, events, callbacks, inHand, present, socket, fetch, owed>>
  BY DEF PublishStatus, Broker!Announce, pageVars
<1>2. StatusTypeOK'
  BY <1>1 DEF StatusInv, StatusTypeOK
<1>3. socket # None => Announced(socket)'
  <2> SUFFICES ASSUME socket # None PROVE \E w \in Writers : socket \in publishing'[w].to
    BY <1>1 DEF Announced
  <2>1. socket \in subscribers
    BY DEF StatusInv, SocketServed
  <2>2. publishing'[t] = [event |-> Event, to |-> subscribers]
    BY <1>1, <2>1 DEF StatusInv, StatusTypeOK
  <2> QED BY <2>1, <2>2
<1>4. owed' => socket # None
  BY <1>1 DEF StatusInv, OwedToSocket
<1> QED
  BY <1>1, <1>2, <1>3, <1>4, HintStays DEF Called

LEMMA ScheduleKeeps ==
  ASSUME StatusInv, NEW t \in Writers, Schedule(t)
  PROVE  StatusInv'
<1>1. PICK r \in publishing[t].to :
        /\ callbacks' = Append(callbacks, [session |-> r, event |-> publishing[t].event])
        /\ publishing' = [publishing EXCEPT ![t] =
             IF @.to = {r} THEN Broker!Quiet ELSE [event |-> @.event, to |-> @.to \ {r}]]
  BY DEF Schedule, Broker!Schedule
<1>2. UNCHANGED <<subscribers, events, inHand, present, socket, fetch, owed, changed>>
  BY DEF Schedule, Broker!Schedule, pageVars
<1> DEFINE to == publishing[t].to c == [session |-> r, event |-> publishing[t].event]
           next == IF to = {r} THEN Broker!Quiet ELSE [event |-> publishing[t].event, to |-> to \ {r}]
<1>3. publishing[t].event = Event /\ to \in SUBSET Sessions /\ c \in Call /\ callbacks \in Seq(Call) /\ c.session = r
  BY DEF StatusInv, StatusTypeOK, Broker!Quiet, Call
<1>4. publishing' = [publishing EXCEPT ![t] = next]
  BY <1>1
<1>5. next \in {Broker!Quiet} \cup [event : {Event}, to : SUBSET Sessions] /\ to \ {r} \subseteq next.to
  BY <1>3 DEF Broker!Quiet
<1>6. callbacks' = Append(callbacks, c)
  BY <1>1
<1> HIDE DEF to, c, next
<1>7. /\ callbacks' \in Seq(Call) /\ Len(callbacks) \in Nat
      /\ DOMAIN callbacks = 1 .. Len(callbacks) /\ DOMAIN callbacks' = 1 .. Len(callbacks) + 1
      /\ callbacks'[Len(callbacks) + 1] = c /\ \A k \in 1 .. Len(callbacks) : callbacks'[k] = callbacks[k]
  BY <1>3, <1>6, AppendProperties, LenProperties
<1>8. StatusTypeOK'
  BY <1>2, <1>4, <1>5, <1>7 DEF StatusInv, StatusTypeOK
<1>9. Called(socket) => Called(socket)'
  <2>1. ASSUME NEW k \in DOMAIN callbacks, callbacks[k].session = socket
        PROVE  k \in DOMAIN callbacks' /\ callbacks'[k].session = socket
    BY <1>7, <2>1
  <2> QED BY <1>2, <2>1 DEF Called
<1>10. Announced(socket) => Announced(socket)' \/ Called(socket)'
  <2> SUFFICES ASSUME NEW w \in Writers, socket \in publishing[w].to
               PROVE  (\E x \in Writers : socket \in publishing'[x].to) \/ \E k \in DOMAIN callbacks' : callbacks'[k].session = socket
    BY <1>2 DEF Announced, Called
  <2>1. CASE w # t
    <3>1. publishing'[w] = publishing[w]
      BY <1>4, <2>1 DEF StatusInv, StatusTypeOK
    <3> QED BY <3>1
  <2>2. CASE w = t /\ socket # r
    <3>1. publishing'[t] = next
      BY <1>4 DEF StatusInv, StatusTypeOK
    <3>2. socket \in next.to
      BY <1>5, <2>2 DEF to
    <3> QED BY <3>1, <3>2
  <2>3. CASE socket = r
    <3>1. Len(callbacks) + 1 \in DOMAIN callbacks' /\ callbacks'[Len(callbacks) + 1].session = socket
      BY <1>3, <1>7, <2>3
    <3> QED BY <3>1
  <2> QED BY <2>1, <2>2, <2>3
<1>11. owed' => socket # None
  BY <1>2 DEF StatusInv, OwedToSocket
<1> QED
  BY <1>2, <1>8, <1>9, <1>10, <1>11, HintStays

LEMMA PutLatestKeeps ==
  ASSUME StatusInv, PutLatest
  PROVE  StatusInv'
<1> DEFINE r == Head(callbacks).session e == Head(callbacks).event
           kept == IF Len(events[r]) = EventCapacity THEN Tail(events[r]) ELSE events[r]
<1>1. /\ callbacks # <<>> /\ callbacks' = Tail(callbacks)
      /\ events' = [events EXCEPT ![r] = IF r \in subscribers THEN Append(kept, e) ELSE @]
      /\ UNCHANGED <<subscribers, publishing, inHand, present, changed, socket, fetch, owed>>
  BY DEF PutLatest, Broker!PutLatest, pageVars
<1>2. callbacks \in Seq(Call)
  BY DEF StatusInv, StatusTypeOK
<1>3. Head(callbacks) \in Call /\ r \in Sessions /\ e \in {Event}
  <2>1. Head(callbacks) \in Call
    BY <1>1, <1>2, TailElements
  <2> QED BY <2>1 DEF Call
<1>4. events[r] \in Seq({Event}) /\ (Len(events[r]) = EventCapacity => events[r] # <<>>)
  <2>1. events[r] \in Seq({Event})
    BY <1>3 DEF StatusInv, StatusTypeOK
  <2>2. Len(<<>>) = 0 /\ EventCapacity # 0
    BY StatusAssumption
  <2> QED BY <2>1, <2>2
<1>5. kept \in Seq({Event})
  BY <1>4, TailElements
<1>6. /\ events' \in [Sessions -> Seq({Event})]
      /\ \A s \in Sessions : s # r \/ s \notin subscribers => events'[s] = events[s]
      /\ r \in subscribers => events'[r] # <<>>
  <2> HIDE DEF kept, r, e
  <2>1. Append(kept, e) \in Seq({Event}) /\ Append(kept, e) # <<>> /\ events \in [Sessions -> Seq({Event})]
    <3>1. Append(kept, e) \in Seq({Event}) /\ Len(Append(kept, e)) = Len(kept) + 1 /\ Len(kept) \in Nat
      BY <1>3, <1>5, AppendProperties, LenProperties
    <3>2. Len(<<>>) = 0
      OBVIOUS
    <3>3. Append(kept, e) # <<>>
      BY <3>1, <3>2
    <3> QED BY <3>1, <3>3 DEF StatusInv, StatusTypeOK
  <2> QED BY <1>1, <1>3, <2>1
<1>7. /\ callbacks' \in Seq(Call) /\ Len(callbacks) \in Nat
      /\ DOMAIN callbacks = 1 .. Len(callbacks) /\ DOMAIN callbacks' = 1 .. Len(callbacks) - 1
      /\ Head(callbacks) = callbacks[1] /\ \A k \in 1 .. Len(callbacks) - 1 : callbacks'[k] = callbacks[k + 1]
  <2>1. /\ callbacks' \in Seq(Call) /\ Len(callbacks') = Len(callbacks) - 1 /\ Head(callbacks) = callbacks[1]
        /\ \A k \in 1 .. Len(callbacks') : callbacks'[k] = callbacks[k + 1]
    BY <1>1, <1>2, HeadTailProperties
  <2> QED BY <1>2, <2>1, LenProperties
<1>8. StatusTypeOK'
  BY <1>1, <1>6, <1>7 DEF StatusInv, StatusTypeOK
<1>9. socket # None => socket \in subscribers /\ socket \in Sessions
  BY DEF StatusInv, StatusTypeOK, SocketServed
<1>10. socket # None /\ Called(socket) => Called(socket)' \/ events'[socket] # <<>>
  <2> SUFFICES ASSUME socket # None, NEW k \in DOMAIN callbacks, callbacks[k].session = socket
               PROVE  (\E j \in DOMAIN callbacks' : callbacks'[j].session = socket) \/ events'[socket] # <<>>
    BY <1>1 DEF Called
  <2>1. CASE k = 1
    BY <1>6, <1>7, <1>9, <2>1
  <2>2. CASE k # 1
    <3>1. k - 1 \in DOMAIN callbacks' /\ callbacks'[k - 1] = callbacks[k]
      BY <1>7, <2>2
    <3> QED BY <3>1
  <2> QED BY <2>1, <2>2
<1>11. socket # None /\ events[socket] # <<>> => events'[socket] # <<>>
  BY <1>6, <1>9
<1>12. owed' => socket # None
  BY <1>1 DEF StatusInv, OwedToSocket
<1> QED
  BY <1>1, <1>8, <1>10, <1>11, <1>12, HintStays DEF Announced

LEMMA ConnectKeeps ==
  ASSUME StatusInv, NEW s \in Sessions, ConnectStatusSocket(s)
  PROVE  StatusInv'
<1>1. /\ socket = None /\ socket' = s /\ subscribers' = subscribers \cup {s} /\ present' = present \cup {s}
      /\ events' = [events EXCEPT ![s] = <<>>]
      /\ UNCHANGED <<callbacks, publishing, inHand, changed, fetch, owed>>
  BY DEF ConnectStatusSocket, Broker!Subscribe
<1>2. <<>> \in Seq({Event}) /\ ~owed
  BY <1>1, EmptySeq DEF StatusInv, OwedToSocket
<1> QED
  BY <1>1, <1>2 DEF StatusInv, StatusTypeOK, SocketServed, OwedToSocket, HintUnderway

LEMMA ClosesKeeps ==
  ASSUME StatusInv, SocketCloses
  PROVE  StatusInv'
<1>1. /\ socket' = None /\ owed' = FALSE
      /\ UNCHANGED <<subscribers, events, callbacks, publishing, inHand, changed, fetch>>
  BY DEF SocketCloses, Broker!BrowserLeaves
<1> QED
  BY <1>1 DEF StatusInv, StatusTypeOK, SocketServed, OwedToSocket, HintUnderway

LEMMA TakeKeeps ==
  ASSUME StatusInv, NEW s \in Sessions, Broker!TakeEvent(s), UNCHANGED <<status, changed, pageVars, owed>>
  PROVE  StatusInv'
<1>1. /\ events[s] # <<>> /\ inHand' = [inHand EXCEPT ![s] = Head(events[s])] /\ events' = [events EXCEPT ![s] = Tail(@)]
      /\ UNCHANGED <<subscribers, callbacks, publishing, present, changed, socket, fetch, owed>>
  BY DEF Broker!TakeEvent, pageVars
<1>2. Head(events[s]) = Event /\ Tail(events[s]) \in Seq({Event}) /\ Event # None
  <2>1. events[s] \in Seq({Event})
    BY DEF StatusInv, StatusTypeOK
  <2> QED BY <1>1, <2>1, TailElements, StatusAssumption
<1>3. StatusTypeOK' /\ inHand'[s] # None
  BY <1>1, <1>2 DEF StatusInv, StatusTypeOK
<1>4. ASSUME socket # None PROVE /\ events[socket] # <<>> => events'[socket] # <<>> \/ inHand'[socket] # None
                                 /\ inHand[socket] # None => inHand'[socket] # None
  BY <1>1, <1>3, <1>4 DEF StatusInv, StatusTypeOK
<1>5. owed' => socket # None
  BY <1>1 DEF StatusInv, OwedToSocket
<1> QED
  BY <1>1, <1>3, <1>4, <1>5, HintStays DEF Announced, Called

LEMMA DisconnectKeeps ==
  ASSUME StatusInv, NEW s \in Sessions, Broker!SendDisconnects(s), UNCHANGED <<status, changed, pageVars, owed>>
  PROVE  StatusInv'
<1>1. /\ s \notin present /\ subscribers' = subscribers \ {s}
      /\ inHand' = [inHand EXCEPT ![s] = None] /\ events' = [events EXCEPT ![s] = <<>>]
      /\ UNCHANGED <<callbacks, publishing, present, changed, socket, fetch, owed>>
  BY DEF Broker!SendDisconnects, pageVars
<1>2. <<>> \in Seq({Event})
  BY EmptySeq
<1>3. StatusTypeOK'
  BY <1>1, <1>2 DEF StatusInv, StatusTypeOK
<1>4. socket # None => socket # s
  BY <1>1 DEF StatusInv, SocketServed
<1>5. SocketServed' /\ OwedToSocket'
  BY <1>1, <1>4 DEF StatusInv, SocketServed, OwedToSocket
<1>6. socket # None => events'[socket] = events[socket] /\ inHand'[socket] = inHand[socket]
  BY <1>1, <1>4 DEF StatusInv, StatusTypeOK
<1>7. HintUnderway'
  BY <1>1, <1>6 DEF StatusInv, HintUnderway, OwedToSocket, Announced, Called
<1> QED BY <1>3, <1>5, <1>7 DEF StatusInv

LEMMA EventKeeps ==
  ASSUME StatusInv, NEW s \in Sessions, NEW f \in Fetches, StatusEvent(s, f)
  PROVE  StatusInv'
<1>1. /\ s = socket /\ inHand' = [inHand EXCEPT ![s] = None] /\ fetch' = [fetch EXCEPT ![f] = "asked"]
      /\ UNCHANGED <<subscribers, events, callbacks, publishing, present, changed, socket, owed>>
  BY DEF StatusEvent, Broker!SendEvent
<1>2. StatusTypeOK' /\ fetch'[f] = "asked"
  BY <1>1 DEF StatusInv, StatusTypeOK
<1> QED
  BY <1>1, <1>2 DEF StatusInv, SocketServed, OwedToSocket, HintUnderway

LEMMA FetchKeeps ==
  ASSUME StatusInv, NEW f \in Fetches, FetchStep(f)
  PROVE  StatusInv'
<1>1. UNCHANGED <<subscribers, events, callbacks, publishing, inHand, present, changed, socket>>
  BY DEF FetchStep, Answer, Render, brokerVars
<1>2. CASE Answer(f)
  <2>1. owed' = FALSE /\ fetch' = [fetch EXCEPT ![f] = "answered"]
    BY <1>2 DEF Answer
  <2> QED BY <1>1, <2>1 DEF StatusInv, StatusTypeOK, SocketServed, OwedToSocket, HintUnderway
<1>3. CASE Render(f)
  <2>1. owed' = owed /\ fetch[f] = "answered" /\ fetch' = [fetch EXCEPT ![f] = "idle"]
    BY <1>3 DEF Render
  <2>2. StatusTypeOK' /\ \A g \in Fetches : fetch[g] = "asked" => fetch'[g] = "asked"
    BY <1>1, <2>1 DEF StatusInv, StatusTypeOK
  <2>3. owed' => socket # None
    BY <2>1 DEF StatusInv, OwedToSocket
  <2> QED
    BY <1>1, <2>1, <2>2, <2>3, HintStays DEF Announced, Called
<1> QED BY <1>2, <1>3 DEF FetchStep

LEMMA StatusKeeps ==
  ASSUME StatusInv, [Next]_vars
  PROVE  StatusInv'
<1>1. ASSUME NEW s \in Sessions, HandlerStep(s) PROVE StatusInv'
  BY <1>1, TakeKeeps, DisconnectKeeps, EventKeeps DEF HandlerStep
<1>2. CASE UNCHANGED vars
  BY <1>2 DEF vars, brokerVars, pageVars, StatusInv, StatusTypeOK, SocketServed, OwedToSocket, HintUnderway, Announced, Called
<1> QED
  BY <1>1, <1>2, StoreKeeps, PublishKeeps, ScheduleKeeps, PutLatestKeeps, ConnectKeeps, ClosesKeeps, FetchKeeps DEF Next

\* While the page is owed an answer, a hint is on its way to it.
THEOREM HintStaysUnderway == Spec => []HintUnderway
<1>1. StatusInv /\ [Next]_vars => StatusInv'
  BY StatusKeeps
<1>2. StatusInv => HintUnderway
  BY DEF StatusInv
<1> QED BY StatusInitial, <1>1, <1>2, PTL DEF Spec

=============================================================================
