-------------------------------- MODULE Unit --------------------------------
(***************************************************************************)
(* run_pipeline (src/nvidia_pipe/cli.py): the main thread of a unit, which *)
(* loads the model, the parameters and the postprocessing, and then takes  *)
(* one frame after the other from the receiver through the callback to the *)
(* sender. The consumer of the results refreshes the postprocessing.       *)
(*                                                                         *)
(* A frame is its number. The decoder and the encoder are external and     *)
(* keep the order; each is taken to hand on one frame for each it is given.*)
(***************************************************************************)
EXTENDS HotReload, Receive, InferQueue

\* The instances a run explores, one of which is in setup. Every bound of the unit is
\* a field: packets, presentation times, connections, saves and results; interval is
\* the setting interval_frames.
CONSTANT Setups

SetupType == [interval : Nat, packets : Nat, times : Nat, connections : Nat, saves : Nat, results : SUBSET Results]

ASSUME UnitAssumption == Setups \subseteq SetupType /\ Files = {"parameters", "model", "postprocess"}

VARIABLES
  setup,
  main,    \* the main thread: where it is, should_infer, frame_index
  counts,  \* the counters of frames
  output   \* the frames that were handed to the sender

unitVars == <<setup, main, counts, output>>
vars == <<unitVars, reloadVars, receiveVars, queueVars>>

TypeOK ==
  /\ ReloadTypeOK /\ ReceiveTypeOK /\ QueueTypeOK
  /\ setup \in Setups
  /\ main \in [pc : {"starting", "receiving", "model", "parameters", "callback", "submitting",
                     "encoding", "closing", "joining", "closed"},
               infer : BOOLEAN, index : Nat]
  /\ counts \in [received : Nat, sent : Nat, success : Nat, failure : Nat]
  /\ output \in Seq(1 .. counts.received)

Init ==
  /\ ReloadInit /\ ReceiveInit /\ QueueInit
  /\ setup \in Setups
  /\ main = [pc |-> "starting", infer |-> FALSE, index |-> 0]
  /\ counts = [received |-> 0, sent |-> 0, success |-> 0, failure |-> 0]
  /\ output = <<>>

At(pc) == main.pc = pc
Goes(pc) == main' = [main EXCEPT !.pc = pc]

-----------------------------------------------------------------------------
(***************************************************************************)
(* The start. What was loaded last is constructed first.                   *)
(***************************************************************************)
LoadOrder == <<"parameters", "model", "postprocess">>

StartLoads ==
  /\ At("starting")
  /\ \E i \in DOMAIN LoadOrder :
       /\ \A j \in 1 .. i - 1 : live[LoadOrder[j]].pc = "loaded first"
       /\ LoadFirst(LoadOrder[i])
  /\ UNCHANGED <<unitVars, receiveVars, queueVars>>

StartConstructs ==
  /\ At("starting")
  /\ \E i \in DOMAIN LoadOrder :
       /\ \A j \in DOMAIN LoadOrder \ {i} : live[LoadOrder[j]].pc = IF j < i THEN "loaded first" ELSE "idle"
       /\ Construct(LoadOrder[i])
  /\ UNCHANGED <<unitVars, receiveVars, queueVars>>

\* An exception at the start, of a file that does not load perhaps, ends the unit.
StartFails ==
  /\ At("starting") /\ Goes("closed")
  /\ UNCHANGED <<setup, counts, output, reloadVars, receiveVars, queueVars>>

Started ==
  /\ At("starting") /\ \A f \in Files : Idle(f)
  /\ Goes("receiving") /\ StartConsumer
  /\ UNCHANGED <<setup, counts, output, reloadVars, receiveVars>>

-----------------------------------------------------------------------------
(***************************************************************************)
(* The frame loop.                                                         *)
(***************************************************************************)
Attempt ==
  /\ At("receiving")
  /\ (Connects /\ connections < setup.connections) \/ ConnectFails
  /\ UNCHANGED <<unitVars, reloadVars, queueVars>>

Reconnect ==
  /\ At("receiving")
  /\ ReadFails \/ InputEnds
  /\ UNCHANGED <<unitVars, reloadVars, queueVars>>

\* A packet comes and, unless it stays in the jitter buffer, a frame with it.
ReadPacket ==
  /\ At("receiving") /\ Len(arrived) < setup.packets
  /\ \E t \in 1 .. setup.times : Arrives(t)
  /\ IF released' = released
     THEN UNCHANGED <<main, counts>>
     ELSE /\ counts' = [counts EXCEPT !.received = @ + 1]
          /\ main' = IF setup.interval = 0
                     THEN [main EXCEPT !.pc = "encoding"]
                     ELSE [main EXCEPT !.pc = "model", !.infer = main.index % setup.interval = 0]
  /\ UNCHANGED <<setup, output, reloadVars, queueVars>>

\* A step of refresh(); when it has returned, the thread goes on to pc.
Refreshes(f, pc) ==
  /\ Refresh(f)
  /\ IF live'[f].pc = "idle" THEN Goes(pc) ELSE UNCHANGED main

\* Whether the callback takes parameters is a property of the model.
RefreshModel ==
  /\ At("model")
  /\ \E pc \in {"parameters", "callback"} : Refreshes("model", pc)
  /\ UNCHANGED <<setup, counts, output, receiveVars, queueVars>>

RefreshParameters ==
  /\ At("parameters")
  /\ Refreshes("parameters", "callback")
  /\ UNCHANGED <<setup, counts, output, receiveVars, queueVars>>

Success == [counts EXCEPT !.success = IF main.infer THEN @ + 1 ELSE @]
Failure == [counts EXCEPT !.failure = IF main.infer THEN @ + 1 ELSE @]

\* on_frame returns a frame, with a result or without, or None, which is not sent.
Outcomes == {"encoding", "receiving"} \cup (IF counts.received \in setup.results THEN {"submitting"} ELSE {})

\* Mutant: the frame index is advanced when the frame is done with.
CallbackReturnsFirst ==
  /\ At("callback")
  /\ \E pc \in Outcomes : main' = [main EXCEPT !.pc = pc, !.index = IF pc = "submitting" THEN @ ELSE @ + 1]
  /\ counts' = Success
  /\ UNCHANGED <<setup, output, reloadVars, receiveVars, queueVars>>

CallbackReturns ==
  /\ At("callback")
  /\ \E pc \in Outcomes : main' = [main EXCEPT !.pc = pc, !.index = @ + 1]
  /\ counts' = Success
  /\ UNCHANGED <<setup, output, reloadVars, receiveVars, queueVars>>

\* on_frame raises, or submit() does: the frame is sent as it came.
CallbackRaises ==
  /\ At("callback")
  /\ Goes("encoding") /\ counts' = Failure
  /\ UNCHANGED <<setup, output, reloadVars, receiveVars, queueVars>>

SubmitResult ==
  /\ At("submitting")
  /\ Submit(counts.received) /\ Goes("encoding")
  /\ UNCHANGED <<setup, counts, output, reloadVars, receiveVars>>

\* Mutant: the frame is handed on before its result is submitted, and once more by
\* the handler of the exception.
SubmitRaisesLate ==
  /\ At("submitting")
  /\ Goes("encoding") /\ counts' = Failure
  /\ output' = Append(output, counts.received)
  /\ UNCHANGED <<setup, reloadVars, receiveVars, queueVars>>

SubmitRaises ==
  /\ At("submitting")
  /\ Goes("encoding") /\ counts' = Failure
  /\ UNCHANGED <<setup, output, reloadVars, receiveVars, queueVars>>

Send ==
  /\ At("encoding")
  /\ output' = Append(output, counts.received)
  /\ counts' = [counts EXCEPT !.sent = @ + 1]
  /\ Goes("receiving")
  /\ UNCHANGED <<setup, reloadVars, receiveVars, queueVars>>

\* An exception that is not the callback's, or a KeyboardInterrupt.
LoopEnds ==
  /\ main.pc \in {"receiving", "model", "parameters", "callback", "submitting", "encoding"}
  /\ Goes("closing")
  /\ UNCHANGED <<setup, counts, output, reloadVars, receiveVars, queueVars>>

\* close() of the queue: its two joins have a time limit.
CloseSetsStop ==
  /\ At("closing")
  /\ Goes("joining") /\ stopping' = TRUE
  /\ UNCHANGED <<setup, counts, output, reloadVars, receiveVars>>
  /\ UNCHANGED <<copying, incoming, pending, todo, cpuQueue, publisher, consumer, consumed>>

\* Mutant: the joins have no time limit.
CloseWaits ==
  /\ At("joining") /\ publisher.pc \in {"none", "ended"} /\ consumer.pc = "ended"
  /\ Goes("closed")
  /\ UNCHANGED <<setup, counts, output, reloadVars, receiveVars, queueVars>>

CloseReturns ==
  /\ At("joining")
  /\ Goes("closed")
  /\ UNCHANGED <<setup, counts, output, reloadVars, receiveVars, queueVars>>

-----------------------------------------------------------------------------
(***************************************************************************)
(* The other threads, the GPU, and the operator.                           *)
(***************************************************************************)
Publisher == PublisherStep /\ UNCHANGED <<unitVars, reloadVars, receiveVars>>
Copies == CopyCompletes /\ UNCHANGED <<unitVars, reloadVars, receiveVars>>

\* consume_inference_result: the postprocessing is refreshed, then called.
RefreshPostprocess ==
  /\ consumer.pc = "taken"
  /\ Refresh("postprocess")
  /\ consumer' = [consumer EXCEPT !.pc = IF live'["postprocess"].pc = "idle" THEN "calling" ELSE @]
  /\ UNCHANGED <<unitVars, receiveVars, copying, incoming, pending, todo, cpuQueue, publisher, stopping, consumed>>

Consumer == (ConsumerStep /\ UNCHANGED <<unitVars, reloadVars, receiveVars>>) \/ RefreshPostprocess
CallbackEnds == CallEnds /\ UNCHANGED <<unitVars, reloadVars, receiveVars>>

Saves == file["parameters"].rev + file["model"].rev + file["postprocess"].rev - 3

Edit ==
  /\ Saves < setup.saves
  /\ \E f \in Files : Save(f)
  /\ UNCHANGED <<unitVars, receiveVars, queueVars>>

Starting == StartLoads \/ StartConstructs \/ StartFails \/ Started
Processing == RefreshModel \/ RefreshParameters \/ CallbackReturns \/ CallbackRaises
                \/ SubmitResult \/ SubmitRaises \/ Send \/ CloseSetsStop \/ CloseReturns

Next == Starting \/ Attempt \/ Reconnect \/ ReadPacket \/ Processing \/ LoopEnds
          \/ Publisher \/ Copies \/ Consumer \/ CallbackEnds \/ Edit

Spec == Init /\ [][Next]_vars

\* The threads run, the GPU completes what it is given, and an attempt to connect ends,
\* well or not. A packet, an edit and the return of the consumer's callback are owed to
\* nobody.
FairSpec ==
  /\ Spec
  /\ WF_vars(Processing) /\ WF_vars(Attempt) /\ WF_vars(Publisher) /\ WF_vars(Copies) /\ WF_vars(Consumer)

-----------------------------------------------------------------------------
(***************************************************************************)
(* Properties, with those of the parts.                                    *)
(***************************************************************************)

\* The frames that are sent keep their order, and none is sent twice, whatever the
\* callback and the submission of its result do (cli.py:459 and :464).
EachFrameOnce == \A i, j \in DOMAIN output : i < j => output[i] < output[j]

\* The inference is asked for again until it has succeeded, and then every interval
\* calls that return (cli.py:431, :448): a frame whose callback raises does not count.
SuccessPerInterval ==
  setup.interval > 0 => counts.success = (main.index + setup.interval - 1) \div setup.interval

\* The frame loop waits for its input only (013, FR-005): a frame is done with although
\* the consumer does not come back from its callback, and a unit that ends has ended.
NoBackPressure == main.pc \notin {"starting", "receiving"} ~> main.pc \in {"receiving", "closed"}

\* A status that says connected while nothing is read is corrected by the next attempt
\* (receive.py:93): no fault of the input leaves it there.
StatusIsCorrected ==
  ~reading ~> (reading \/ inputStatus = "disconnected" \/ main.pc \in {"closing", "joining", "closed"})

\* A result that was submitted does not stay where it is (infer_queue.py:110: the wait
\* has a time limit), unless the unit ends or the callback never comes back.
ResultArrives ==
  \A r \in Results : r \in Waiting ~> (r \notin Waiting \/ stopping \/ consumer.pc = "calling")

=============================================================================
