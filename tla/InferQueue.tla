----------------------------- MODULE InferQueue -----------------------------
(***************************************************************************)
(* InferenceResultQueue (src/nvidia_pipe/infer_queue.py): the frame loop   *)
(* submits results that are on the GPU; a publisher thread puts those      *)
(* whose copy is complete into a bounded queue; a consumer thread calls    *)
(* back with them.                                                         *)
(*                                                                         *)
(* A result is the number of its frame. There is one GPU, hence one copy   *)
(* stream; the event _wake only shortens a wait that has a time limit.     *)
(***************************************************************************)
EXTENDS Naturals, Sequences, SequencesExt

CONSTANTS
  QueueSize,   \* cpu_queue.maxsize
  Results      \* the frames that may have a result

ASSUME QueueAssumption == QueueSize \in Nat \ {0} /\ Results \subseteq Nat \ {0}

VARIABLES
  copying,    \* the copy stream: copies that are not complete, in order
  incoming,   \* _incoming
  pending,    \* _pending between two scans, still_pending during one
  todo,       \* what is left of _pending during a scan
  cpuQueue,
  publisher,  \* where its thread is, and the result it is putting
  consumer,   \* likewise, with the result it has taken
  stopping,   \* _stop
  consumed    \* the results taken from cpu_queue, in order

queueVars == <<copying, incoming, pending, todo, cpuQueue, publisher, consumer, stopping, consumed>>

NoResult == 0

QueueTypeOK ==
  /\ \A s \in {copying, incoming, pending, todo, cpuQueue, consumed} : s \in Seq(Results)
  /\ Len(cpuQueue) <= QueueSize
  /\ publisher \in [pc : {"none", "waiting", "scanning", "evicting", "replacing", "ended"},
                    result : Results \cup {NoResult}]
  /\ consumer \in [pc : {"none", "top", "waiting", "taken", "calling", "ended"}, result : Results \cup {NoResult}]
  /\ stopping \in BOOLEAN

QueueInit ==
  /\ copying = <<>> /\ incoming = <<>> /\ pending = <<>> /\ todo = <<>>
  /\ cpuQueue = <<>> /\ consumed = <<>>
  /\ publisher = [pc |-> "none", result |-> NoResult]
  /\ consumer = [pc |-> "none", result |-> NoResult]
  /\ stopping = FALSE

\* The constructor.
StartConsumer ==
  /\ consumer' = [consumer EXCEPT !.pc = "top"]
  /\ UNCHANGED <<copying, incoming, pending, todo, cpuQueue, publisher, stopping, consumed>>

\* submit(): the first one starts the publisher.
Submit(r) ==
  /\ copying' = Append(copying, r)
  /\ incoming' = Append(incoming, r)
  /\ publisher' = [publisher EXCEPT !.pc = IF @ = "none" THEN "scanning" ELSE @]
  /\ UNCHANGED <<pending, todo, cpuQueue, consumer, stopping, consumed>>

\* Mutant: each submit() takes a stream of its own.
CopyCompletesInAnyOrder ==
  /\ \E i \in DOMAIN copying : copying' = RemoveAt(copying, i)
  /\ UNCHANGED <<incoming, pending, todo, cpuQueue, publisher, consumer, stopping, consumed>>

\* The GPU completes the copies of a stream in the order they were given to it.
CopyCompletes ==
  /\ copying # <<>>
  /\ copying' = Tail(copying)
  /\ UNCHANGED <<incoming, pending, todo, cpuQueue, publisher, consumer, stopping, consumed>>

\* Mutant: the wait for _wake has no time limit.
CollectWhenWoken ==
  /\ publisher.pc = "waiting" /\ (incoming # <<>> \/ stopping)
  /\ publisher' = [publisher EXCEPT !.pc = "scanning"]
  /\ todo' = pending \o incoming /\ pending' = <<>> /\ incoming' = <<>>
  /\ UNCHANGED <<copying, cpuQueue, consumer, stopping, consumed>>

-----------------------------------------------------------------------------
(***************************************************************************)
(* _publish_ready and _put_latest.                                         *)
(***************************************************************************)
Collect ==
  /\ publisher.pc = "waiting"
  /\ publisher' = [publisher EXCEPT !.pc = "scanning"]
  /\ todo' = pending \o incoming /\ pending' = <<>> /\ incoming' = <<>>
  /\ UNCHANGED <<copying, cpuQueue, consumer, stopping, consumed>>

Ready(r) == r \notin ToSet(copying)

LeavePending ==
  /\ publisher.pc = "scanning" /\ todo # <<>> /\ ~Ready(Head(todo))
  /\ pending' = Append(pending, Head(todo)) /\ todo' = Tail(todo)
  /\ UNCHANGED <<copying, incoming, cpuQueue, publisher, consumer, stopping, consumed>>

\* Mutant: the queue has no limit.
PublishAnyway ==
  /\ publisher.pc = "scanning" /\ todo # <<>> /\ Ready(Head(todo))
  /\ todo' = Tail(todo) /\ cpuQueue' = Append(cpuQueue, Head(todo))
  /\ UNCHANGED <<copying, incoming, pending, publisher, consumer, stopping, consumed>>

\* Mutant: a result stays pending although it was put into the queue.
PublishKeeps ==
  /\ publisher.pc = "scanning" /\ todo # <<>> /\ Ready(Head(todo))
  /\ todo' = Tail(todo) /\ pending' = Append(pending, Head(todo))
  /\ IF Len(cpuQueue) < QueueSize
     THEN cpuQueue' = Append(cpuQueue, Head(todo)) /\ UNCHANGED publisher
     ELSE publisher' = [pc |-> "evicting", result |-> Head(todo)] /\ UNCHANGED cpuQueue
  /\ UNCHANGED <<copying, incoming, consumer, stopping, consumed>>

\* Mutant: the newcomer is dropped when the queue is full.
PublishDropsNewest ==
  /\ publisher.pc = "scanning" /\ todo # <<>> /\ Ready(Head(todo))
  /\ todo' = Tail(todo)
  /\ cpuQueue' = IF Len(cpuQueue) < QueueSize THEN Append(cpuQueue, Head(todo)) ELSE cpuQueue
  /\ UNCHANGED <<copying, incoming, pending, publisher, consumer, stopping, consumed>>

Publish ==
  /\ publisher.pc = "scanning" /\ todo # <<>> /\ Ready(Head(todo))
  /\ todo' = Tail(todo)
  /\ IF Len(cpuQueue) < QueueSize
     THEN cpuQueue' = Append(cpuQueue, Head(todo)) /\ UNCHANGED publisher
     ELSE publisher' = [pc |-> "evicting", result |-> Head(todo)] /\ UNCHANGED cpuQueue
  /\ UNCHANGED <<copying, incoming, pending, consumer, stopping, consumed>>

\* The queue was full. If the consumer has emptied it since, there is nothing to
\* evict, and the new result is dropped with the exception.
Evict ==
  /\ publisher.pc = "evicting"
  /\ IF cpuQueue = <<>>
     THEN publisher' = [pc |-> "scanning", result |-> NoResult] /\ UNCHANGED cpuQueue
     ELSE publisher' = [publisher EXCEPT !.pc = "replacing"] /\ cpuQueue' = Tail(cpuQueue)
  /\ UNCHANGED <<copying, incoming, pending, todo, consumer, stopping, consumed>>

\* Nobody else puts: there is room.
Replace ==
  /\ publisher.pc = "replacing"
  /\ cpuQueue' = Append(cpuQueue, publisher.result)
  /\ publisher' = [pc |-> "scanning", result |-> NoResult]
  /\ UNCHANGED <<copying, incoming, pending, todo, consumer, stopping, consumed>>

\* The end of a scan, and the beginning of the loop.
ScanEnds ==
  /\ publisher.pc = "scanning" /\ todo = <<>>
  /\ publisher' = [publisher EXCEPT !.pc = IF stopping THEN "ended" ELSE "waiting"]
  /\ UNCHANGED <<copying, incoming, pending, todo, cpuQueue, consumer, stopping, consumed>>

PublisherStep == Collect \/ LeavePending \/ Publish \/ Evict \/ Replace \/ ScanEnds

-----------------------------------------------------------------------------
(***************************************************************************)
(* _consume_results. The callback itself belongs to the unit.              *)
(***************************************************************************)
Around == consumer.pc = "top" \/ (consumer.pc = "waiting" /\ cpuQueue = <<>>)

\* The beginning of the loop, to which a get that timed out comes back.
ConsumerTop ==
  /\ Around
  /\ consumer' = [consumer EXCEPT !.pc = IF stopping THEN "ended" ELSE "waiting"]
  /\ UNCHANGED <<copying, incoming, pending, todo, cpuQueue, publisher, stopping, consumed>>

GetResult ==
  /\ consumer.pc = "waiting" /\ cpuQueue # <<>>
  /\ consumer' = [pc |-> "taken", result |-> Head(cpuQueue)]
  /\ cpuQueue' = Tail(cpuQueue) /\ consumed' = Append(consumed, Head(cpuQueue))
  /\ UNCHANGED <<copying, incoming, pending, todo, publisher, stopping>>

\* The callback returns or raises; both end the round.
CallEnds ==
  /\ consumer.pc = "calling"
  /\ consumer' = [pc |-> "top", result |-> NoResult]
  /\ UNCHANGED <<copying, incoming, pending, todo, cpuQueue, publisher, stopping, consumed>>

ConsumerStep == ConsumerTop \/ GetResult

-----------------------------------------------------------------------------

\* Submitted and not in cpu_queue, nor in the publisher's hands.
Unqueued == UNION {ToSet(s) : s \in {incoming, pending, todo}}

Waiting == (Unqueued \cup ToSet(cpuQueue) \cup {publisher.result}) \ {NoResult}

\* What the publisher found no room for; and the queue, in which it has taken the place
\* of the oldest as soon as that one is out, for nobody else puts.
Excess == IF publisher.pc = "evicting" THEN {publisher.result} ELSE {}
Queue == IF publisher.pc = "replacing" THEN Append(cpuQueue, publisher.result) ELSE cpuQueue

\* A result reaches the callback at most once, in the order of the queue. None is lost
\* but in the one way _put_latest has (infer_queue.py:97): put() finds the queue full and
\* drops the oldest in it, or, if the consumer has emptied the queue before the next
\* line, what it was to put. The publisher's scans, its list and the copies lose nothing.
Promise ==
  INSTANCE Delivery WITH
    Room <- QueueSize, waiting <- Unqueued, excess <- Excess, queue <- Queue,
    delivered <- consumed

ImplementsDelivery == Promise!Spec

\* Results may come out of order, but only those whose copies are complete
\* (infer_queue.py:119): one that is left pending while a later one has been published is
\* ready, and the next scan publishes it before anything it collects.
OvertakenIsReady ==
  \A r \in ToSet(pending) : (\E s \in ToSet(consumed \o cpuQueue) : s > r) => Ready(r)

=============================================================================
