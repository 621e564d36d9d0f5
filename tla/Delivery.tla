----------------------------- MODULE Delivery ------------------------------
(***************************************************************************)
(* What a bounded queue of results promises to its consumer: a result that *)
(* was submitted is handed over at most once, in the order in which it was *)
(* put into the queue, and it is lost in one way only. Whoever finds the   *)
(* queue full drops the oldest in it, once, and takes its place; only if   *)
(* the consumer has emptied the queue in the meantime, it is dropped       *)
(* itself. Nothing is said about the order in which results are put.       *)
(***************************************************************************)
EXTENDS Naturals, Sequences, SequencesExt

CONSTANTS
  Results,    \* numbered in the order in which they are submitted
  Room        \* how many the queue has room for

VARIABLES
  waiting,    \* submitted, and not in the queue yet
  excess,     \* the one for which the queue was found full, if any
  queue,
  delivered   \* what the consumer was called with, in order

Init == waiting = {} /\ excess = {} /\ queue = <<>> /\ delivered = <<>>

Known == waiting \cup excess \cup ToSet(queue) \cup ToSet(delivered)

Submit(r) ==
  /\ \A s \in Known : s < r
  /\ waiting' = waiting \cup {r}
  /\ UNCHANGED <<excess, queue, delivered>>

Enter(r) ==
  /\ Len(queue) < Room
  /\ waiting' = waiting \ {r} /\ queue' = Append(queue, r)
  /\ UNCHANGED <<excess, delivered>>

FindFull(r) ==
  /\ Len(queue) = Room /\ excess = {}
  /\ waiting' = waiting \ {r} /\ excess' = {r}
  /\ UNCHANGED <<queue, delivered>>

DropOldest(r) ==
  /\ queue # <<>>
  /\ excess' = {} /\ queue' = Append(Tail(queue), r)
  /\ UNCHANGED <<waiting, delivered>>

DropNewest ==
  /\ excess # {} /\ queue = <<>>
  /\ excess' = {}
  /\ UNCHANGED <<waiting, queue, delivered>>

Deliver ==
  /\ queue # <<>>
  /\ queue' = Tail(queue) /\ delivered' = Append(delivered, Head(queue))
  /\ UNCHANGED <<waiting, excess>>

Next ==
  \/ \E r \in Results : Submit(r)
  \/ \E r \in waiting : Enter(r) \/ FindFull(r)
  \/ \E r \in excess : DropOldest(r)
  \/ DropNewest
  \/ Deliver

Spec == Init /\ [][Next]_<<waiting, excess, queue, delivered>>

=============================================================================
