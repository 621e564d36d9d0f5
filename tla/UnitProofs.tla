----------------------------- MODULE UnitProofs -----------------------------
(***************************************************************************)
(* Theorems about Unit, for every jitter buffer, queue size, set of        *)
(* results and setup.                                                      *)
(***************************************************************************)
EXTENDS Unit, SequenceLemmas, TLAPS

(***************************************************************************)
(* What a step of the unit may do to each of its parts.                    *)
(***************************************************************************)
ReloadStep == (\E f \in Files : Save(f) \/ LoadFirst(f) \/ Construct(f) \/ Refresh(f)) \/ UNCHANGED reloadVars

ReceiveStep ==
  Connects \/ ConnectFails \/ (\E t \in Nat : Arrives(t)) \/ ReadFails \/ InputEnds \/ UNCHANGED receiveVars

ConsumerMoves ==
  /\ consumer' \in [pc : {"top", "taken", "calling"}, result : {consumer.result}]
  /\ UNCHANGED <<copying, incoming, pending, todo, cpuQueue, publisher, stopping, consumed>>

StopIsSet ==
  /\ stopping' = TRUE
  /\ UNCHANGED <<copying, incoming, pending, todo, cpuQueue, publisher, consumer, consumed>>

QueueStep ==
  \/ (At("submitting") /\ Submit(counts.received) /\ Goes("encoding") /\ UNCHANGED counts)
  \/ PublisherStep \/ CopyCompletes \/ ConsumerStep \/ CallEnds \/ ConsumerMoves \/ StopIsSet
  \/ UNCHANGED queueVars

\* The main thread on its own: a frame comes, an output, a move to another place.
Inside == {"model", "parameters", "callback", "submitting"}

NextFrame ==
  /\ At("receiving") /\ counts' = [counts EXCEPT !.received = @ + 1]
  /\ UNCHANGED <<output, setup, queueVars>>
  /\ main' \in [pc : {"encoding", "model"}, infer : BOOLEAN, index : {main.index}]
  /\ main'.pc = "model" => main'.infer = (main.index % setup.interval = 0)

Asked == {"model", "parameters", "callback"}

FrameMoves ==
  /\ UNCHANGED <<output, setup>>
  /\ main' \in [pc : {"starting", "receiving", "model", "parameters", "callback", "submitting",
                      "encoding", "closing", "joining", "closed"},
                infer : {main.infer}, index : {main.index, main.index + 1}]
  /\ \/ main'.index = main.index /\ counts' \in {counts, Failure}
     \/ main.pc = "callback" /\ main'.index = main.index + 1 /\ counts' = Success
  /\ main'.pc \in Inside => main.pc \in Inside
  /\ main'.pc \in Asked => main.pc \in Asked /\ main'.index = main.index
  /\ main'.pc = "encoding" => main.pc \in Inside \cup {"encoding"}
  /\ main'.pc = "submitting" => main.pc = "submitting" \/ counts.received \in setup.results

UnitStep == NextFrame \/ Send \/ FrameMoves

LEMMA NextReloads ==
  ASSUME [Next]_vars
  PROVE  ReloadStep
<1>1. ASSUME NEW i \in DOMAIN LoadOrder
      PROVE  LoadOrder[i] \in Files
  BY UnitAssumption DEF LoadOrder
<1> QED
  BY <1>1, UnitAssumption DEF Next, vars, ReloadStep, Starting, StartLoads, StartConstructs, StartFails, Started,
    Attempt, Reconnect, ReadPacket, Processing, RefreshModel, RefreshParameters, Refreshes, CallbackReturns,
    CallbackRaises, SubmitResult, SubmitRaises, Send, CloseSetsStop, CloseReturns, LoopEnds, Publisher, Copies,
    Consumer, RefreshPostprocess, CallbackEnds, Edit

LEMMA NextReceives ==
  ASSUME TypeOK, [Next]_vars
  PROVE  ReceiveStep
<1>1. setup.times \in Nat
  BY UnitAssumption DEF TypeOK, SetupType
<1>2. ASSUME ReadPacket PROVE ReceiveStep
  BY <1>1, <1>2 DEF ReadPacket, ReceiveStep
<1> QED
  BY <1>2 DEF Next, vars, ReceiveStep, Starting, StartLoads, StartConstructs, StartFails, Started,
    Attempt, Reconnect, Processing, RefreshModel, RefreshParameters, Refreshes, CallbackReturns,
    CallbackRaises, SubmitResult, SubmitRaises, Send, CloseSetsStop, CloseReturns, LoopEnds, Publisher, Copies,
    Consumer, RefreshPostprocess, CallbackEnds, Edit

LEMMA NextQueues ==
  ASSUME TypeOK, [Next]_vars
  PROVE  QueueStep
<1>1. CASE Started
  BY <1>1 DEF TypeOK, QueueTypeOK, Started, StartConsumer, QueueStep, ConsumerMoves
<1>2. CASE RefreshPostprocess
  BY <1>2 DEF TypeOK, QueueTypeOK, RefreshPostprocess, QueueStep, ConsumerMoves
<1>3. CASE CloseSetsStop
  BY <1>3 DEF CloseSetsStop, QueueStep, StopIsSet
<1>4. CASE SubmitResult
  BY <1>4 DEF SubmitResult, QueueStep
<1> QED
  BY <1>1, <1>2, <1>3, <1>4 DEF Next, vars, QueueStep, Starting, StartLoads, StartConstructs, StartFails,
    Attempt, Reconnect, ReadPacket, Processing, RefreshModel, RefreshParameters, Refreshes, CallbackReturns,
    CallbackRaises, SubmitRaises, Send, CloseReturns, LoopEnds, Publisher, Copies,
    Consumer, CallbackEnds, Edit

LEMMA NextMoves ==
  ASSUME TypeOK, [Next]_vars
  PROVE  UnitStep
<1> USE DEF UnitStep, At, Goes
<1>1. ASSUME UNCHANGED unitVars PROVE FrameMoves
  BY <1>1 DEF unitVars, FrameMoves, TypeOK, Inside, Asked
<1>2. CASE ReadPacket
  <2>1. CASE released' = released
    BY <1>1, <1>2, <2>1 DEF ReadPacket, unitVars
  <2>2. CASE released' # released
    <3>1. /\ main.pc = "receiving" /\ UNCHANGED <<output, setup, queueVars>>
          /\ counts' = [counts EXCEPT !.received = @ + 1]
          /\ main' = IF setup.interval = 0
                     THEN [main EXCEPT !.pc = "encoding"]
                     ELSE [main EXCEPT !.pc = "model", !.infer = main.index % setup.interval = 0]
      BY <1>2, <2>2 DEF ReadPacket
    <3>2. CASE setup.interval = 0
      BY <3>1, <3>2 DEF NextFrame, TypeOK
    <3>3. CASE setup.interval # 0
      BY <3>1, <3>3 DEF NextFrame, TypeOK
    <3> QED BY <3>2, <3>3
  <2> QED BY <2>1, <2>2
<1>3. CASE RefreshModel \/ RefreshParameters
  BY <1>1, <1>3 DEF RefreshModel, RefreshParameters, Refreshes, FrameMoves, TypeOK, Inside, Asked, unitVars
<1>4. CASE CallbackReturns \/ CallbackRaises
  <2>1. CASE CallbackReturns
    <3>1. PICK pc \in Outcomes : main' = [main EXCEPT !.pc = pc, !.index = @ + 1]
      BY <2>1 DEF CallbackReturns
    <3>2. main.pc = "callback" /\ counts' = Success /\ UNCHANGED <<output, setup>>
      BY <2>1 DEF CallbackReturns
    <3>3. pc \in {"encoding", "receiving", "submitting"} /\ (pc = "submitting" => counts.received \in setup.results)
      BY DEF Outcomes
    <3>4. main'.pc = pc /\ main'.index = main.index + 1 /\ main'.infer = main.infer
          /\ main' = [pc |-> pc, infer |-> main.infer, index |-> main.index + 1]
      BY <3>1 DEF TypeOK
    <3> QED BY <3>2, <3>3, <3>4 DEF FrameMoves, Inside, Asked
  <2>2. CASE CallbackRaises
    BY <1>4, <2>2 DEF CallbackRaises, FrameMoves, TypeOK, Inside, Asked
  <2> QED BY <1>4, <2>1, <2>2
<1>5. CASE SubmitResult \/ SubmitRaises
  BY <1>5 DEF SubmitResult, SubmitRaises, FrameMoves, TypeOK, Inside, Asked
<1>6. CASE LoopEnds \/ CloseSetsStop \/ CloseReturns \/ StartFails \/ Started
  BY <1>6 DEF LoopEnds, CloseSetsStop, CloseReturns, StartFails, Started, FrameMoves, TypeOK, Inside, Asked
<1> QED
  BY <1>1, <1>2, <1>3, <1>4, <1>5, <1>6 DEF Next, vars, Starting, StartLoads, StartConstructs,
    Attempt, Reconnect, Processing, Publisher, Copies, Consumer, RefreshPostprocess, CallbackEnds, Edit, unitVars

(***************************************************************************)
(* Reloading.  InUseAsNoted is not inductive: it needs what is known while *)
(* a load is under way.  A revision that was taken before something else   *)
(* is not greater than it.                                                 *)
(***************************************************************************)
Behind(f) ==
  /\ live[f].active <= file[f].rev /\ live[f].seen <= file[f].rev
  /\ live[f].first <= file[f].rev /\ live[f].read <= file[f].rev

LoadedLater(f) == live[f].pc = "loaded" => live[f].seen <= live[f].read

NotAhead(f) ==
  f \in Checked /\ live[f].pc \in {"idle", "changed", "loaded"} /\ live[f].seen # Gone => live[f].active <= live[f].seen

UsesSeen(f) == Settled(f) /\ live[f].seen # live[f].first => live[f].active = file[f].rev

FileInv(f) == file[f] \in FileType /\ live[f] \in LiveType /\ Behind(f) /\ LoadedLater(f) /\ NotAhead(f) /\ UsesSeen(f)

ReloadInv == ReloadTypeOK /\ \A f \in Files : FileInv(f)

LEMMA ReloadInitial == Init => ReloadInv
BY DEF Init, ReloadInit, Unloaded, ReloadInv, ReloadTypeOK, FileInv, FileType, LiveType, Texts, Revisions, Gone,
  Behind, LoadedLater, NotAhead, UsesSeen, Settled, Idle

\* A step about one file keeps the others.
LEMMA ReloadKeeps ==
  ASSUME ReloadInv, ReloadStep
  PROVE  ReloadInv'
<1> USE DEF ReloadInv
<1>1. CASE UNCHANGED reloadVars
  BY <1>1 DEF reloadVars, ReloadTypeOK, FileInv, Behind, LoadedLater, NotAhead, UsesSeen, Settled, Idle
<1>2. ASSUME NEW f \in Files, NEW new, NEW watch,
             new \in FileType, watch \in LiveType,
             file' = [file EXCEPT ![f] = new], live' = [live EXCEPT ![f] = watch], FileInv(f)'
      PROVE  ReloadInv'
  <2>1. ReloadTypeOK'
    BY <1>2 DEF ReloadTypeOK
  <2>2. ASSUME NEW g \in Files PROVE FileInv(g)'
    <3>1. CASE g = f
      BY <1>2, <3>1
    <3>2. CASE g # f
      <4>1. file'[g] = file[g] /\ live'[g] = live[g]
        BY <1>2, <3>2 DEF ReloadTypeOK
      <4> QED BY <4>1 DEF FileInv, Behind, LoadedLater, NotAhead, UsesSeen, Settled, Idle
    <3> QED BY <3>1, <3>2
  <2> QED BY <2>1, <2>2
<1>3. ASSUME NEW f \in Files
      PROVE  /\ FileInv(f) /\ live \in [Files -> LiveType] /\ file \in [Files -> FileType]
             /\ file[f].rev \in Nat \ {0} /\ file[f].text \in Texts
             /\ live[f].active \in Nat /\ live[f].seen \in Nat /\ live[f].first \in Nat /\ live[f].read \in Nat
             /\ Revision(f) \in {Gone, file[f].rev}
  <2>1. live \in [Files -> LiveType] /\ file \in [Files -> FileType] /\ FileInv(f)
    BY <1>3 DEF ReloadTypeOK
  <2>2. live[f] \in LiveType /\ file[f] \in FileType
    BY <1>3, <2>1
  <2>3. file[f].rev \in Nat \ {0} /\ file[f].text \in Texts
    BY <2>2 DEF FileType, Revisions
  <2>4. Revisions \cup {Gone} = Nat
    BY DEF Revisions, Gone
  <2>5. live[f].active \in Nat /\ live[f].seen \in Nat /\ live[f].first \in Nat /\ live[f].read \in Nat
    BY <2>2, <2>4 DEF LiveType
  <2> QED BY <2>1, <2>3, <2>5 DEF Revision
<1>4. ASSUME NEW f \in Files, Save(f) PROVE ReloadInv'
  <2>1. PICK t \in Texts : file' = [file EXCEPT ![f] = [rev |-> file[f].rev + 1, text |-> t]] /\ live' = live
    BY <1>4 DEF Save
  <2>2. file'[f] = [rev |-> file[f].rev + 1, text |-> t] /\ live'[f] = live[f] /\ live' = [live EXCEPT ![f] = live[f]]
    BY <1>3, <2>1
  <2>3. file'[f] \in FileType /\ live[f] \in LiveType /\ file'[f].rev = file[f].rev + 1
    BY <1>3, <2>2 DEF FileType, Revisions
  <2>4. Behind(f)' /\ LoadedLater(f)' /\ NotAhead(f)' /\ UsesSeen(f)'
    BY <1>3, <2>2, <2>3 DEF FileInv, Behind, LoadedLater, NotAhead, UsesSeen, Settled
  <2> QED BY <1>2, <2>1, <2>2, <2>3, <2>4 DEF FileInv
\* The object of f goes to watch; for that record the parts of the invariant are to hold.
<1>5. ASSUME NEW f \in Files, NEW watch \in LiveType, live' = [live EXCEPT ![f] = watch], file' = file,
             watch.active <= file[f].rev, watch.seen <= file[f].rev, watch.first <= file[f].rev,
             watch.read <= file[f].rev,
             watch.pc = "loaded" => watch.seen <= watch.read,
             f \in Checked /\ watch.pc \in {"idle", "changed", "loaded"} /\ watch.seen # Gone =>
               watch.active <= watch.seen,
             watch.pc = "idle" /\ watch.seen = file[f].rev /\ file[f].text = "whole" /\ watch.seen # watch.first =>
               watch.active = file[f].rev
      PROVE  ReloadInv'
  <2>1. live'[f] = watch /\ file' = [file EXCEPT ![f] = file[f]] /\ file[f] \in FileType
    BY <1>3, <1>5
  <2>2. FileInv(f)'
    BY <1>5, <2>1 DEF FileInv, Behind, LoadedLater, NotAhead, UsesSeen, Settled, Idle
  <2> QED BY <1>2, <1>5, <2>1, <2>2
<1>6. ASSUME NEW f \in Files, LoadFirst(f) \/ Construct(f) \/ Refresh(f)
      PROVE  ReloadInv'
  <2>1. CASE FindsUnchanged(f)
    BY <1>1, <2>1 DEF FindsUnchanged
  <2> DEFINE l == live[f]
  <2>2. /\ l.active <= file[f].rev /\ l.seen <= file[f].rev /\ l.first <= file[f].rev /\ l.read <= file[f].rev
        /\ l.pc = "loaded" => l.seen <= l.read
        /\ f \in Checked /\ l.pc \in {"idle", "changed", "loaded"} /\ l.seen # Gone => l.active <= l.seen
    BY <1>3 DEF FileInv, Behind, LoadedLater, NotAhead
  <2>10. file[f].rev \in Nat \ {0} /\ l.active \in Nat /\ l.seen \in Nat /\ l.first \in Nat /\ l.read \in Nat
        /\ Revision(f) \in {Gone, file[f].rev}
    BY <1>3
  <2>11. l \in LiveType /\ live \in [Files -> LiveType]
    BY <1>3
  <2>12. Revision(f) \in Revisions \cup {Gone} /\ file[f].rev \in Revisions \cup {Gone}
    BY <2>10 DEF Revisions
  <2>3. CASE LoadFirst(f)
    <3> DEFINE w == [l EXCEPT !.pc = "loaded first", !.active = file[f].rev]
    <3>1. live' = [live EXCEPT ![f] = w] /\ file' = file /\ w \in LiveType
      <4>1. w \in LiveType
        BY <2>11, <2>12 DEF LiveType
      <4>2. live' = [live EXCEPT ![f] = w] /\ file' = file
        BY <2>11, <2>3 DEF LoadFirst
      <4> QED BY <4>1, <4>2
    <3>2. w.pc = "loaded first" /\ w.active = file[f].rev /\ w.seen = l.seen /\ w.first = l.first /\ w.read = l.read
      BY <2>11 DEF LiveType
    <3> HIDE DEF w, l
    <3>4. /\ w.active <= file[f].rev /\ w.seen <= file[f].rev /\ w.first <= file[f].rev /\ w.read <= file[f].rev
          /\ w.pc = "loaded" => w.seen <= w.read
          /\ f \in Checked /\ w.pc \in {"idle", "changed", "loaded"} /\ w.seen # Gone => w.active <= w.seen
          /\ w.pc = "idle" /\ w.seen = file[f].rev /\ file[f].text = "whole" /\ w.seen # w.first =>
               w.active = file[f].rev
      <4>1. w.active <= file[f].rev /\ w.seen <= file[f].rev /\ w.first <= file[f].rev /\ w.read <= file[f].rev
        <5>1. \A r \in Nat : r <= r
          OBVIOUS
        <5> QED BY <2>2, <2>10, <3>2, <5>1
      <4>2. w.pc \notin {"idle", "changed", "loaded"}
        BY <3>2, Zenon
      <4> QED BY <4>1, <4>2
    <3> QED BY <1>5, <3>1, <3>4
  <2>4. CASE Construct(f)
    <3> DEFINE w == [l EXCEPT !.pc = "idle", !.seen = Revision(f), !.first = Revision(f)]
    <3>1. live' = [live EXCEPT ![f] = w] /\ file' = file /\ w \in LiveType
      <4>1. w \in LiveType
        BY <2>11, <2>12 DEF LiveType
      <4>2. live' = [live EXCEPT ![f] = w] /\ file' = file
        BY <2>11, <2>4 DEF Construct
      <4> QED BY <4>1, <4>2
    <3>2. w.pc = "idle" /\ w.active = l.active /\ w.seen = Revision(f) /\ w.first = Revision(f) /\ w.read = l.read
      BY <2>11 DEF LiveType
    <3> HIDE DEF w, l
    <3>4. /\ w.active <= file[f].rev /\ w.seen <= file[f].rev /\ w.first <= file[f].rev /\ w.read <= file[f].rev
          /\ w.pc = "loaded" => w.seen <= w.read
          /\ f \in Checked /\ w.pc \in {"idle", "changed", "loaded"} /\ w.seen # Gone => w.active <= w.seen
          /\ w.pc = "idle" /\ w.seen = file[f].rev /\ file[f].text = "whole" /\ w.seen # w.first =>
               w.active = file[f].rev
      BY <2>2, <2>4, <2>10, <3>1, <3>2 DEF Gone
    <3> QED BY <1>5, <3>1, <3>4
  <2>5. CASE FindsChange(f)
    <3> DEFINE w == [l EXCEPT !.pc = "changed", !.seen = Revision(f)]
    <3>1. live' = [live EXCEPT ![f] = w] /\ file' = file /\ w \in LiveType
      <4>1. w \in LiveType
        BY <2>11, <2>12 DEF LiveType
      <4>2. live' = [live EXCEPT ![f] = w] /\ file' = file
        BY <2>11, <2>5 DEF FindsChange
      <4> QED BY <4>1, <4>2
    <3>2. w.pc = "changed" /\ w.active = l.active /\ w.seen = Revision(f) /\ w.first = l.first /\ w.read = l.read
      BY <2>11 DEF LiveType
    <3> HIDE DEF w, l
    <3>4. /\ w.active <= file[f].rev /\ w.seen <= file[f].rev /\ w.first <= file[f].rev /\ w.read <= file[f].rev
          /\ w.pc = "loaded" => w.seen <= w.read
          /\ f \in Checked /\ w.pc \in {"idle", "changed", "loaded"} /\ w.seen # Gone => w.active <= w.seen
          /\ w.pc = "idle" /\ w.seen = file[f].rev /\ file[f].text = "whole" /\ w.seen # w.first =>
               w.active = file[f].rev
      BY <2>2, <2>5, <2>10, <3>1, <3>2 DEF Gone
    <3> QED BY <1>5, <3>1, <3>4
  <2>6. CASE Load(f) /\ file[f].text # "whole"
    <3> DEFINE w == [l EXCEPT !.pc = "idle"]
    <3>1. live' = [live EXCEPT ![f] = w] /\ file' = file /\ w \in LiveType /\ l.pc = "changed"
      <4>1. w \in LiveType
        BY <2>11, <2>12 DEF LiveType
      <4>2. live' = [live EXCEPT ![f] = w] /\ file' = file /\ l.pc = "changed"
        BY <2>11, <2>6 DEF Load
      <4> QED BY <4>1, <4>2
    <3>2. w.pc = "idle" /\ w.active = l.active /\ w.seen = l.seen /\ w.first = l.first /\ w.read = l.read
      BY <2>11 DEF LiveType
    <3> HIDE DEF w, l
    <3>4. /\ w.active <= file[f].rev /\ w.seen <= file[f].rev /\ w.first <= file[f].rev /\ w.read <= file[f].rev
          /\ w.pc = "loaded" => w.seen <= w.read
          /\ f \in Checked /\ w.pc \in {"idle", "changed", "loaded"} /\ w.seen # Gone => w.active <= w.seen
          /\ w.pc = "idle" /\ w.seen = file[f].rev /\ file[f].text = "whole" /\ w.seen # w.first =>
               w.active = file[f].rev
      BY <2>2, <2>6, <2>10, <3>1, <3>2 DEF Gone
    <3> QED BY <1>5, <3>1, <3>4
  <2>7. CASE Load(f) /\ file[f].text = "whole"
    <3> DEFINE w == [l EXCEPT !.pc = "loaded", !.read = file[f].rev]
    <3>1. live' = [live EXCEPT ![f] = w] /\ file' = file /\ w \in LiveType /\ l.pc = "changed"
      <4>1. w \in LiveType
        BY <2>11, <2>12 DEF LiveType
      <4>2. live' = [live EXCEPT ![f] = w] /\ file' = file /\ l.pc = "changed"
        BY <2>11, <2>7 DEF Load
      <4> QED BY <4>1, <4>2
    <3>2. w.pc = "loaded" /\ w.active = l.active /\ w.seen = l.seen /\ w.first = l.first /\ w.read = file[f].rev
      BY <2>11 DEF LiveType
    <3> HIDE DEF w, l
    <3>4. /\ w.active <= file[f].rev /\ w.seen <= file[f].rev /\ w.first <= file[f].rev /\ w.read <= file[f].rev
          /\ w.pc = "loaded" => w.seen <= w.read
          /\ f \in Checked /\ w.pc \in {"idle", "changed", "loaded"} /\ w.seen # Gone => w.active <= w.seen
          /\ w.pc = "idle" /\ w.seen = file[f].rev /\ file[f].text = "whole" /\ w.seen # w.first =>
               w.active = file[f].rev
      BY <2>2, <2>7, <2>10, <3>1, <3>2 DEF Gone
    <3> QED BY <1>5, <3>1, <3>4
  <2>8. CASE Adopt(f) /\ f \in Checked /\ Revision(f) # l.seen
    <3> DEFINE w == [l EXCEPT !.pc = "idle", !.read = Gone]
    <3>1. live' = [live EXCEPT ![f] = w] /\ file' = file /\ w \in LiveType /\ l.pc = "loaded"
      <4>1. w = [live[f] EXCEPT !.pc = "idle", !.read = Gone, !.active = live[f].active]
        BY <2>11 DEF LiveType
      <4>2. w \in LiveType
        BY <2>11 DEF LiveType
      <4> QED BY <2>8, <4>1, <4>2 DEF Adopt
    <3>2. w.pc = "idle" /\ w.active = l.active /\ w.seen = l.seen /\ w.first = l.first /\ w.read = Gone
      BY <2>11 DEF LiveType
    <3>3. ~(l.seen = file[f].rev /\ file[f].text = "whole")
      BY <1>3, <2>8 DEF Gone, Revision
    <3> HIDE DEF w, l
    <3>4. /\ w.active <= file[f].rev /\ w.seen <= file[f].rev /\ w.first <= file[f].rev /\ w.read <= file[f].rev
          /\ w.pc = "loaded" => w.seen <= w.read
          /\ f \in Checked /\ w.pc \in {"idle", "changed", "loaded"} /\ w.seen # Gone => w.active <= w.seen
          /\ w.pc = "idle" /\ w.seen = file[f].rev /\ file[f].text = "whole" /\ w.seen # w.first =>
               w.active = file[f].rev
      BY <2>2, <2>8, <2>10, <3>1, <3>2, <3>3 DEF Gone
    <3> QED BY <1>5, <3>1, <3>4
  <2>9. CASE Adopt(f) /\ ~(f \in Checked /\ Revision(f) # l.seen)
    <3> DEFINE w == [l EXCEPT !.pc = "idle", !.read = Gone, !.active = l.read]
    <3>1. live' = [live EXCEPT ![f] = w] /\ file' = file /\ w \in LiveType /\ l.pc = "loaded"
      <4>1. w \in LiveType
        BY <2>11 DEF LiveType
      <4>2. live' = [live EXCEPT ![f] = w] /\ file' = file /\ l.pc = "loaded"
        BY <2>11, <2>9 DEF Adopt
      <4> QED BY <4>1, <4>2
    <3>2. w.pc = "idle" /\ w.active = l.read /\ w.seen = l.seen /\ w.first = l.first /\ w.read = Gone
      BY <2>11 DEF LiveType
    <3>3. f \in Checked /\ l.seen # Gone => l.seen = file[f].rev
      BY <1>3, <2>9 DEF Gone, Revision
    <3> HIDE DEF w, l
    <3>4. /\ w.active <= file[f].rev /\ w.seen <= file[f].rev /\ w.first <= file[f].rev /\ w.read <= file[f].rev
          /\ w.pc = "loaded" => w.seen <= w.read
          /\ f \in Checked /\ w.pc \in {"idle", "changed", "loaded"} /\ w.seen # Gone => w.active <= w.seen
          /\ w.pc = "idle" /\ w.seen = file[f].rev /\ file[f].text = "whole" /\ w.seen # w.first =>
               w.active = file[f].rev
      BY <2>2, <2>9, <2>10, <3>1, <3>2, <3>3 DEF Gone
    <3> QED BY <1>5, <3>1, <3>4
  <2> QED BY <1>6, <2>1, <2>3, <2>4, <2>5, <2>6, <2>7, <2>8, <2>9 DEF Refresh
<1> QED BY <1>1, <1>4, <1>6 DEF ReloadStep

\* A file whose revision was noted is in use once it has been read, and a module in use
\* is never newer than the revision noted for it.
THEOREM ReloadCorrect == Spec => []InUseAsNoted
<1>1. ReloadInv /\ [Next]_vars => ReloadInv'
  BY NextReloads, ReloadKeeps
<1>2. ReloadInv => InUseAsNoted
  BY ReloadAssumption DEF ReloadInv, FileInv, NotAhead, UsesSeen, InUseAsNoted, Idle, Settled
<1> QED BY ReloadInitial, <1>1, <1>2, PTL DEF Spec

(***************************************************************************)
(* Types.                                                                  *)
(***************************************************************************)
UnitTypeOK ==
  /\ setup \in Setups
  /\ main \in [pc : {"starting", "receiving", "model", "parameters", "callback", "submitting",
                     "encoding", "closing", "joining", "closed"},
               infer : BOOLEAN, index : Nat]
  /\ counts \in [received : Nat, sent : Nat, success : Nat, failure : Nat]
  /\ output \in Seq(1 .. counts.received)

\* A frame is under way only after it was counted, and has a result only if it may.
UnderWay ==
  /\ main.pc \in Inside \cup {"encoding"} => counts.received > 0
  /\ main.pc = "submitting" => counts.received \in Results

\* What the publisher is putting; and a queue in which room was made has room.
Putting ==
  /\ publisher.pc \in {"evicting", "replacing"} => publisher.result \in Results
  /\ publisher.pc = "replacing" => Len(cpuQueue) < QueueSize

TypeInv == TypeOK /\ UnderWay /\ Putting

LEMMA Empty == ASSUME NEW S PROVE <<>> \in Seq(S)
BY EmptySeq

LEMMA TypeInitial == Init => TypeInv
<1> SUFFICES ASSUME Init PROVE TypeInv
  OBVIOUS
<1>1. ReloadTypeOK
  BY ReloadInitial DEF ReloadInv
<1>2. ReceiveTypeOK
  BY Empty DEF Init, ReceiveInit, ReceiveTypeOK
<1>3. QueueTypeOK /\ Putting
  <2>1. Len(<<>>) = 0 /\ 0 <= QueueSize
    BY QueueAssumption
  <2> QED BY <2>1, Empty DEF Init, QueueInit, QueueTypeOK, Putting, NoResult
<1>4. UnitTypeOK /\ UnderWay
  BY Empty DEF Init, UnitTypeOK, UnderWay, Inside
<1> QED BY <1>1, <1>2, <1>3, <1>4 DEF TypeInv, TypeOK, UnitTypeOK

LEMMA UnitTypeKeeps ==
  ASSUME TypeInv, UnitStep
  PROVE  UnitTypeOK' /\ UnderWay'
<1> USE DEF Goes, At
<1>1. UnitTypeOK /\ UnderWay /\ setup.results \subseteq Results
  BY UnitAssumption DEF TypeInv, TypeOK, UnitTypeOK, SetupType
<1>2. ASSUME NEW n \in Nat, NEW m \in Nat, n <= m, NEW s \in Seq(1 .. n) PROVE s \in Seq(1 .. m)
  BY <1>2, SeqMonotonic, 1 .. n \subseteq 1 .. m
<1>3. CASE NextFrame
  <2>1. counts'.received = counts.received + 1 /\ counts.received \in Nat /\ output' = output
    BY <1>1, <1>3 DEF NextFrame, UnitTypeOK
  <2>2. output' \in Seq(1 .. counts'.received)
    BY <1>1, <1>2, <2>1 DEF UnitTypeOK
  <2>3. main' \in [pc : {"encoding", "model"}, infer : BOOLEAN, index : Nat]
    <3>1. main.index \in Nat
      BY <1>1 DEF UnitTypeOK
    <3>2. main' \in [pc : {"encoding", "model"}, infer : BOOLEAN, index : {main.index}]
      BY <1>3 DEF NextFrame
    <3> QED BY <3>1, <3>2
  <2>4. counts' \in [received : Nat, sent : Nat, success : Nat, failure : Nat] /\ setup' \in Setups
    <3>1. counts \in [received : Nat, sent : Nat, success : Nat, failure : Nat] /\ setup \in Setups
      BY <1>1 DEF UnitTypeOK
    <3>2. counts' = [counts EXCEPT !.received = @ + 1] /\ setup' = setup
      BY <1>3 DEF NextFrame
    <3> QED BY <3>1, <3>2
  <2>5. UnitTypeOK'
    BY <2>2, <2>3, <2>4 DEF UnitTypeOK
  <2>6. UnderWay'
    BY <2>1, <2>3 DEF UnderWay
  <2> QED BY <2>5, <2>6
<1>4. CASE Send
  <2>1. counts.received > 0 /\ counts.received \in Nat /\ counts'.received = counts.received
    BY <1>1, <1>4 DEF Send, UnderWay, UnitTypeOK
  <2>2. output' \in Seq(1 .. counts.received)
    BY <1>1, <1>4, <2>1, AppendProperties DEF Send, UnitTypeOK
  <2> QED BY <1>1, <1>4, <2>1, <2>2 DEF Send, UnitTypeOK, UnderWay, Inside
<1>5. CASE FrameMoves
  <2>1. counts' \in [received : Nat, sent : Nat, success : Nat, failure : Nat] /\ counts'.received = counts.received
    <3>1. Success \in [received : Nat, sent : Nat, success : Nat, failure : Nat] /\ Success.received = counts.received
      BY <1>1 DEF UnitTypeOK, Success
    <3>2. Failure \in [received : Nat, sent : Nat, success : Nat, failure : Nat] /\ Failure.received = counts.received
      BY <1>1 DEF UnitTypeOK, Failure
    <3> QED BY <1>1, <1>5, <3>1, <3>2 DEF FrameMoves, UnitTypeOK
  <2>2. UnitTypeOK'
    BY <1>1, <1>5, <2>1 DEF FrameMoves, UnitTypeOK
  <2>3. UnderWay'
    BY <1>1, <1>5, <2>1 DEF FrameMoves, UnderWay, Inside
  <2> QED BY <2>2, <2>3
<1> QED BY <1>3, <1>4, <1>5 DEF UnitStep

PublisherType == [pc : {"none", "waiting", "scanning", "evicting", "replacing", "ended"}, result : Results \cup {NoResult}]

ConsumerType == [pc : {"none", "top", "waiting", "taken", "calling", "ended"}, result : Results \cup {NoResult}]

LEMMA QueueTypeKeeps ==
  ASSUME TypeInv, QueueStep
  PROVE  QueueTypeOK' /\ Putting'
<1>1. Putting /\ (At("submitting") => counts.received \in Results)
  BY DEF TypeInv, TypeOK, UnderWay, At
<1>2. /\ copying \in Seq(Results) /\ incoming \in Seq(Results) /\ pending \in Seq(Results)
      /\ todo \in Seq(Results) /\ cpuQueue \in Seq(Results) /\ consumed \in Seq(Results)
      /\ Len(cpuQueue) <= QueueSize /\ QueueSize \in Nat \ {0}
      /\ publisher \in PublisherType /\ consumer \in ConsumerType /\ stopping \in BOOLEAN
  BY QueueAssumption DEF TypeInv, TypeOK, QueueTypeOK, PublisherType, ConsumerType
<1>3. ASSUME NEW s \in Seq(Results)
      PROVE  /\ Len(s) \in Nat
             /\ s # <<>> => Head(s) \in Results /\ Tail(s) \in Seq(Results) /\ Len(Tail(s)) = Len(s) - 1
             /\ \A r \in Results : Append(s, r) \in Seq(Results) /\ Len(Append(s, r)) = Len(s) + 1
  BY HeadTailProperties, AppendProperties, LenProperties
<1>4. ASSUME copying' \in Seq(Results), incoming' \in Seq(Results), pending' \in Seq(Results),
             todo' \in Seq(Results), cpuQueue' \in Seq(Results), consumed' \in Seq(Results),
             Len(cpuQueue') <= QueueSize, publisher' \in PublisherType, consumer' \in ConsumerType,
             stopping' \in BOOLEAN
      PROVE  QueueTypeOK'
  BY <1>4 DEF QueueTypeOK, PublisherType, ConsumerType
<1>5. CASE At("submitting") /\ Submit(counts.received)
  <2>1. copying' \in Seq(Results) /\ incoming' \in Seq(Results)
    BY <1>1, <1>2, <1>3, <1>5 DEF Submit
  <2>2. publisher' \in PublisherType /\ (publisher'.pc \in {"evicting", "replacing"} => publisher' = publisher)
    BY <1>2, <1>5 DEF Submit, PublisherType
  <2> QED BY <1>1, <1>2, <1>4, <1>5, <2>1, <2>2 DEF Submit, Putting
<1>6. CASE Collect
  <2>1. todo' \in Seq(Results) /\ pending' \in Seq(Results) /\ incoming' \in Seq(Results)
    BY <1>2, <1>6, ConcatProperties, Empty DEF Collect
  <2>2. publisher' \in PublisherType /\ publisher'.pc = "scanning"
    BY <1>2, <1>6 DEF Collect, PublisherType
  <2> QED BY <1>2, <1>4, <1>6, <2>1, <2>2 DEF Collect, Putting
<1>7. CASE LeavePending
  <2>1. pending' \in Seq(Results) /\ todo' \in Seq(Results)
    BY <1>2, <1>3, <1>7 DEF LeavePending
  <2> QED BY <1>1, <1>2, <1>4, <1>7, <2>1 DEF LeavePending, Putting
<1>8. CASE Publish
  <2>1. Head(todo) \in Results /\ todo' \in Seq(Results)
    BY <1>2, <1>3, <1>8 DEF Publish
  <2>2. CASE Len(cpuQueue) < QueueSize
    <3>1. cpuQueue' \in Seq(Results) /\ Len(cpuQueue') <= QueueSize
      <4>1. cpuQueue' = Append(cpuQueue, Head(todo))
        BY <1>8, <2>2 DEF Publish
      <4>2. cpuQueue' \in Seq(Results) /\ Len(cpuQueue') = Len(cpuQueue) + 1 /\ Len(cpuQueue) \in Nat
        BY <1>2, <1>3, <2>1, <4>1
      <4> QED BY <1>2, <2>2, <4>2
    <3> QED BY <1>1, <1>2, <1>4, <1>8, <2>1, <2>2, <3>1 DEF Publish, Putting
  <2>3. CASE ~(Len(cpuQueue) < QueueSize)
    <3>1. publisher' = [pc |-> "evicting", result |-> Head(todo)] /\ publisher' \in PublisherType
      BY <1>8, <2>1, <2>3 DEF Publish, PublisherType
    <3> QED BY <1>2, <1>4, <1>8, <2>1, <2>3, <3>1 DEF Publish, Putting
  <2> QED BY <2>2, <2>3
<1>9. CASE Evict
  <2>1. CASE cpuQueue = <<>>
    <3>1. publisher' = [pc |-> "scanning", result |-> NoResult] /\ publisher' \in PublisherType
      BY <1>9, <2>1 DEF Evict, PublisherType
    <3> QED BY <1>2, <1>4, <1>9, <2>1, <3>1 DEF Evict, Putting
  <2>2. CASE cpuQueue # <<>>
    <3>1. cpuQueue' \in Seq(Results) /\ Len(cpuQueue') < QueueSize
      <4>1. cpuQueue' = Tail(cpuQueue)
        BY <1>9, <2>2 DEF Evict
      <4>2. cpuQueue' \in Seq(Results) /\ Len(cpuQueue') = Len(cpuQueue) - 1 /\ Len(cpuQueue) \in Nat
        BY <1>2, <1>3, <2>2, <4>1
      <4> QED BY <1>2, <4>2
    <3>2. publisher' \in PublisherType /\ publisher'.result = publisher.result /\ publisher.result \in Results
      BY <1>1, <1>2, <1>9, <2>2 DEF Evict, PublisherType, Putting
    <3> QED BY <1>2, <1>4, <1>9, <2>2, <3>1, <3>2 DEF Evict, Putting
  <2> QED BY <2>1, <2>2
<1>10. CASE Replace
  <2>1. cpuQueue' \in Seq(Results) /\ Len(cpuQueue') <= QueueSize
    BY <1>1, <1>2, <1>3, <1>10 DEF Replace, Putting
  <2>2. publisher' = [pc |-> "scanning", result |-> NoResult] /\ publisher' \in PublisherType
    BY <1>10 DEF Replace, PublisherType
  <2> QED BY <1>2, <1>4, <1>10, <2>1, <2>2 DEF Replace, Putting
<1>11. CASE ScanEnds
  <2>1. publisher' \in PublisherType /\ publisher'.pc \in {"ended", "waiting"}
    BY <1>2, <1>11 DEF ScanEnds, PublisherType
  <2> QED BY <1>2, <1>4, <1>11, <2>1 DEF ScanEnds, Putting
<1>12. CASE CopyCompletes
  <2>1. copying' \in Seq(Results)
    BY <1>2, <1>3, <1>12 DEF CopyCompletes
  <2> QED BY <1>1, <1>2, <1>4, <1>12, <2>1 DEF CopyCompletes, Putting
<1>13. CASE GetResult
  <2>1. cpuQueue' \in Seq(Results) /\ Len(cpuQueue') = Len(cpuQueue) - 1 /\ consumed' \in Seq(Results)
        /\ Head(cpuQueue) \in Results /\ Len(cpuQueue) \in Nat
    BY <1>2, <1>3, <1>13 DEF GetResult
  <2>2. consumer' \in ConsumerType
    BY <1>13, <2>1 DEF GetResult, ConsumerType
  <2> QED BY <1>1, <1>2, <1>4, <1>13, <2>1, <2>2 DEF GetResult, Putting
<1>14. CASE ConsumerTop \/ CallEnds \/ ConsumerMoves
  <2>1. consumer' \in ConsumerType
    BY <1>2, <1>14 DEF ConsumerTop, CallEnds, ConsumerMoves, ConsumerType
  <2> QED BY <1>1, <1>2, <1>4, <1>14, <2>1 DEF ConsumerTop, CallEnds, ConsumerMoves, Putting
<1>15. CASE StopIsSet \/ UNCHANGED queueVars
  BY <1>1, <1>2, <1>4, <1>15 DEF StopIsSet, queueVars, Putting
<1> QED
  BY <1>5, <1>6, <1>7, <1>8, <1>9, <1>10, <1>11, <1>12, <1>13, <1>14, <1>15 DEF QueueStep, PublisherStep, ConsumerStep

(***************************************************************************)
(* The jitter buffer hands on the first packet it holds: there is one.     *)
(***************************************************************************)
First(held) == CHOOSE i \in held : \A j \in held : Before(i, j)

LEMMA FirstIsHeld ==
  ASSUME NEW held \in SUBSET (DOMAIN arrived'), held # {}, arrived' \in Seq([by : Nat, pts : Nat])
  PROVE  First(held) \in held /\ \A j \in held : Before(First(held), j)
<1>1. DOMAIN arrived' \subseteq Nat /\ \A i \in DOMAIN arrived' : arrived'[i].pts \in Nat
  <2>1. DOMAIN arrived' = 1 .. Len(arrived') /\ Len(arrived') \in Nat
    BY LenProperties
  <2>2. \A i \in DOMAIN arrived' : arrived'[i] \in [by : Nat, pts : Nat]
    BY <2>1, ElementOfSeq
  <2> QED BY <2>1, <2>2
<1> DEFINE times == {arrived'[i].pts : i \in held}
<1>2. PICK t \in times : \A u \in times : t <= u
  <2>1. times \in SUBSET Nat /\ times # {}
    BY <1>1
  <2> QED BY <2>1, LeastNatural
<1> DEFINE earliest == {i \in held : arrived'[i].pts = t}
<1>3. PICK i \in earliest : \A j \in earliest : i <= j
  <2>1. earliest \in SUBSET Nat /\ earliest # {}
    BY <1>1, <1>2
  <2> QED BY <2>1, LeastNatural
<1>4. ASSUME NEW j \in held PROVE Before(i, j)
  <2>1. arrived'[i].pts = t /\ t <= arrived'[j].pts /\ t \in Nat /\ arrived'[j].pts \in Nat
    BY <1>1, <1>2, <1>3, <1>4
  <2>2. CASE arrived'[j].pts = t
    BY <1>3, <1>4, <2>1, <2>2 DEF Before
  <2>3. CASE arrived'[j].pts # t
    <3>1. \A a, b \in Nat : a <= b /\ b # a => a < b
      OBVIOUS
    <3>2. t < arrived'[j].pts
      BY <2>1, <2>3, <3>1, Zenon
    <3> QED BY <2>1, <3>2 DEF Before
  <2> QED BY <2>2, <2>3
<1>5. i \in held
  BY <1>3
<1> QED BY <1>4, <1>5 DEF First

\* What the arrival of a packet does, in terms of the packet that comes out.
LEMMA ArrivalIs ==
  ASSUME ReceiveTypeOK, NEW t \in Nat, Arrives(t)
  PROVE  /\ arrived' \in Seq([by : Nat, pts : Nat])
         /\ Len(arrived) \in Nat /\ DOMAIN arrived = 1 .. Len(arrived) /\ DOMAIN arrived' = 1 .. Len(arrived) + 1
         /\ \A i \in DOMAIN arrived : arrived'[i] = arrived[i]
         /\ arrived'[Len(arrived) + 1].by = connections
         /\ LET held == buffer \cup {Len(arrived) + 1}
            IN \/ ~(Cardinality(held) > BufferSize) /\ buffer' = held /\ released' = released
               \/ /\ Cardinality(held) > BufferSize
                  /\ \E p \in held : /\ \A j \in held : Before(p, j)
                                    /\ buffer' = held \ {p} /\ released' = Append(released, p)
<1> DEFINE packet == [by |-> connections, pts |-> t]
<1>1. arrived \in Seq([by : Nat, pts : Nat]) /\ packet \in [by : Nat, pts : Nat] /\ arrived' = Append(arrived, packet)
  BY DEF ReceiveTypeOK, Arrives
<1>2. arrived' \in Seq([by : Nat, pts : Nat]) /\ Len(arrived') = Len(arrived) + 1
      /\ (\A i \in 1 .. Len(arrived) : arrived'[i] = arrived[i]) /\ arrived'[Len(arrived) + 1] = packet
  BY <1>1, AppendProperties
<1>3. Len(arrived) \in Nat /\ DOMAIN arrived = 1 .. Len(arrived) /\ DOMAIN arrived' = 1 .. Len(arrived')
  BY <1>1, <1>2, LenProperties
<1> DEFINE held == buffer \cup {Len(arrived) + 1}
<1>4. First(held) \in held /\ \A j \in held : Before(First(held), j)
  <2>1. held \in SUBSET (DOMAIN arrived') /\ held # {}
    BY <1>2, <1>3 DEF ReceiveTypeOK
  <2> HIDE DEF held
  <2> QED BY <1>2, <2>1, FirstIsHeld
<1>5. held = buffer \cup {Len(arrived')}
  BY <1>2
<1>6. \/ ~(Cardinality(held) > BufferSize) /\ buffer' = held /\ released' = released
      \/ Cardinality(held) > BufferSize /\ buffer' = held \ {First(held)} /\ released' = Append(released, First(held))
  <2> HIDE DEF held
  <2> QED BY <1>5 DEF Arrives, First
<1>7. \/ ~(Cardinality(held) > BufferSize) /\ buffer' = held /\ released' = released
      \/ /\ Cardinality(held) > BufferSize
         /\ \E p \in held : /\ \A j \in held : Before(p, j)
                           /\ buffer' = held \ {p} /\ released' = Append(released, p)
  <2> HIDE DEF held, First
  <2> QED BY <1>4, <1>6
<1>8. packet.by = connections
  OBVIOUS
<1>9. (\A i \in DOMAIN arrived : arrived'[i] = arrived[i]) /\ DOMAIN arrived' = 1 .. Len(arrived) + 1
      /\ arrived'[Len(arrived) + 1].by = connections
  <2> HIDE DEF packet
  <2> QED BY <1>2, <1>3, <1>8
<1> QED BY <1>2, <1>3, <1>7, <1>9

LEMMA ReceiveTypeKeeps ==
  ASSUME ReceiveTypeOK, ReceiveStep
  PROVE  ReceiveTypeOK'
<1>1. ASSUME NEW t \in Nat, Arrives(t) PROVE ReceiveTypeOK'
  <2>1. DOMAIN arrived \subseteq DOMAIN arrived' /\ Len(arrived) + 1 \in DOMAIN arrived'
    BY <1>1, ArrivalIs
  <2>2. released \in Seq(DOMAIN arrived')
    BY <2>1, SeqMonotonic DEF ReceiveTypeOK
  <2>3. \A p \in DOMAIN arrived' : Append(released, p) \in Seq(DOMAIN arrived')
    BY <2>2, AppendProperties
  <2>4. buffer \cup {Len(arrived) + 1} \subseteq DOMAIN arrived'
    BY <2>1 DEF ReceiveTypeOK
  <2>5. buffer' \subseteq DOMAIN arrived' /\ released' \in Seq(DOMAIN arrived')
    BY <1>1, <2>2, <2>3, <2>4, ArrivalIs
  <2>6. arrived' \in Seq([by : Nat, pts : Nat])
    BY <1>1, ArrivalIs
  <2>7. UNCHANGED <<connections, reading, inputStatus>>
    BY <1>1 DEF Arrives
  <2> QED BY <2>5, <2>6, <2>7 DEF ReceiveTypeOK
<1>2. CASE Connects
  BY <1>2 DEF ReceiveTypeOK, Connects
<1>3. CASE ConnectFails \/ ReadFails \/ InputEnds \/ UNCHANGED receiveVars
  BY <1>3 DEF ReceiveTypeOK, ConnectFails, ReadFails, InputEnds, receiveVars
<1> QED BY <1>1, <1>2, <1>3 DEF ReceiveStep

LEMMA TypeInvariant == Spec => [](TypeInv /\ ReloadInv)
<1>1. TypeInv /\ ReloadInv /\ [Next]_vars => TypeInv' /\ ReloadInv'
  <2> SUFFICES ASSUME TypeInv, ReloadInv, [Next]_vars PROVE TypeInv' /\ ReloadInv'
    OBVIOUS
  <2>1. TypeOK /\ ReceiveTypeOK
    BY DEF TypeInv, TypeOK
  <2>2. UnitTypeOK' /\ UnderWay'
    BY <2>1, NextMoves, UnitTypeKeeps
  <2>3. QueueTypeOK' /\ Putting'
    BY <2>1, NextQueues, QueueTypeKeeps
  <2>4. ReceiveTypeOK'
    BY <2>1, NextReceives, ReceiveTypeKeeps
  <2>5. ReloadInv'
    BY NextReloads, ReloadKeeps
  <2> QED BY <2>2, <2>3, <2>4, <2>5 DEF TypeInv, TypeOK, UnitTypeOK, ReloadInv
<1> QED BY ReloadInitial, TypeInitial, <1>1, PTL DEF Spec

\* Every variable of the unit keeps its type, and the queue of results its bound.
THEOREM TypeCorrect == Spec => []TypeOK
<1>1. TypeInv => TypeOK
  BY DEF TypeInv
<1> QED BY TypeInvariant, <1>1, PTL

(***************************************************************************)
(* Frames.                                                                 *)
(***************************************************************************)

\* A frame that is under way has not been sent.
FramesInv ==
  EachFrameOnce /\ (main.pc \in Inside \cup {"encoding"} => \A i \in DOMAIN output : output[i] < counts.received)

LEMMA FramesKeep ==
  ASSUME TypeInv, FramesInv, UnitStep
  PROVE  FramesInv'
<1>1. output \in Seq(1 .. counts.received) /\ counts.received \in Nat
  BY DEF TypeInv, TypeOK
<1>2. DOMAIN output = 1 .. Len(output) /\ Len(output) \in Nat /\ \A i \in DOMAIN output : output[i] \in 1 .. counts.received
  BY <1>1, LenProperties, ElementOfSeq
<1>3. CASE NextFrame
  <2>1. output' = output /\ counts'.received = counts.received + 1
    BY <1>3 DEF NextFrame, TypeInv, TypeOK
  <2>2. \A i \in DOMAIN output : output[i] < counts.received + 1
    BY <1>1, <1>2
  <2> QED BY <2>1, <2>2 DEF FramesInv, EachFrameOnce
<1>4. CASE Send
  <2>1. main.pc = "encoding" /\ main'.pc = "receiving" /\ output' = Append(output, counts.received)
    BY <1>4 DEF Send, At, Goes, TypeInv, TypeOK
  <2>2. counts.received \in 1 .. counts.received
    BY <1>1, <2>1 DEF TypeInv, UnderWay
  <2>3. DOMAIN output' = 1 .. Len(output) + 1 /\ (\A i \in DOMAIN output : output'[i] = output[i])
        /\ output'[Len(output) + 1] = counts.received
    <3>1. output' \in Seq(1 .. counts.received) /\ Len(output') = Len(output) + 1
      BY <1>1, <2>1, <2>2, AppendProperties
    <3> QED BY <1>1, <1>2, <2>1, <2>2, <3>1, AppendProperties, LenProperties
  <2>4. \A i \in DOMAIN output : output[i] < counts.received
    BY <2>1 DEF FramesInv
  <2>5. EachFrameOnce'
    BY <1>2, <2>3, <2>4 DEF FramesInv, EachFrameOnce
  <2> QED BY <2>1, <2>5 DEF FramesInv, Inside
<1>5. CASE FrameMoves
  <2>1. output' = output /\ counts'.received = counts.received
    BY <1>5 DEF FrameMoves, Success, Failure, TypeInv, TypeOK
  <2>2. main'.pc \in Inside \cup {"encoding"} => main.pc \in Inside \cup {"encoding"}
    BY <1>5 DEF FrameMoves
  <2> QED BY <2>1, <2>2 DEF FramesInv, EachFrameOnce
<1> QED BY <1>3, <1>4, <1>5 DEF UnitStep

\* The frames are sent in their order and none of them twice.
THEOREM FramesCorrect == Spec => []EachFrameOnce
<1>1. Init => FramesInv
  BY DEF Init, FramesInv, EachFrameOnce, Inside
<1>2. TypeInv /\ FramesInv /\ [Next]_vars => FramesInv'
  BY NextMoves, FramesKeep DEF TypeInv
<1>3. FramesInv => EachFrameOnce
  BY DEF FramesInv
<1> QED BY TypeInvariant, <1>1, <1>2, <1>3, PTL DEF Spec

-----------------------------------------------------------------------------
(***************************************************************************)
(* The inference.  The callback is asked for one according to the index it *)
(* is called with.                                                         *)
(***************************************************************************)
InferInv ==
  SuccessPerInterval
  /\ (setup.interval > 0 /\ main.pc \in Asked => main.infer = (main.index % setup.interval = 0))

\* One more call that returns completes an interval or does not.
LEMMA OneMore ==
  ASSUME NEW n \in Nat \ {0}, NEW k \in Nat
  PROVE  (k + 1 + n - 1) \div n = (k + n - 1) \div n + (IF k % n = 0 THEN 1 ELSE 0)
OBVIOUS

LEMMA None == ASSUME NEW n \in Nat \ {0} PROVE (0 + n - 1) \div n = 0
OBVIOUS

LEMMA InferKeeps ==
  ASSUME TypeInv, InferInv, UnitStep
  PROVE  InferInv'
<1>1. /\ setup.interval \in Nat /\ main.index \in Nat /\ main.infer \in BOOLEAN
      /\ counts.success \in Nat /\ counts \in [received : Nat, sent : Nat, success : Nat, failure : Nat]
  BY UnitAssumption DEF TypeInv, TypeOK, SetupType
<1>2. CASE NextFrame
  <2>1. setup' = setup /\ main'.index = main.index /\ counts'.success = counts.success
    BY <1>1, <1>2 DEF NextFrame
  <2>2. main'.pc \in Asked => main'.infer = (main.index % setup.interval = 0)
    BY <1>2 DEF NextFrame, Asked
  <2> QED BY <2>1, <2>2 DEF InferInv, SuccessPerInterval
<1>3. CASE Send
  <2>1. setup' = setup /\ main'.index = main.index /\ counts'.success = counts.success /\ main'.pc = "receiving"
    BY <1>1, <1>3 DEF Send, Goes, TypeInv, TypeOK
  <2> QED BY <2>1 DEF InferInv, SuccessPerInterval, Asked
<1>4. CASE FrameMoves
  <2>1. setup' = setup /\ main'.infer = main.infer /\ (main'.pc \in Asked => main.pc \in Asked /\ main'.index = main.index)
    BY <1>4 DEF FrameMoves
  <2>2. setup.interval > 0 /\ main'.pc \in Asked => main'.infer = (main'.index % setup.interval = 0)
    BY <2>1 DEF InferInv
  <2>3. CASE main'.index = main.index /\ counts' \in {counts, Failure}
    <3>1. counts'.success = counts.success
      BY <1>1, <2>3 DEF Failure
    <3> QED BY <2>1, <2>2, <2>3, <3>1 DEF InferInv, SuccessPerInterval
  <2>4. CASE main.pc = "callback" /\ main'.index = main.index + 1 /\ counts' = Success
    <3>1. ASSUME setup.interval > 0 PROVE counts'.success = (main'.index + setup.interval - 1) \div setup.interval
      <4>1. main.infer = (main.index % setup.interval = 0)
        BY <2>4, <3>1 DEF InferInv, Asked
      <4>2. counts'.success = counts.success + (IF main.infer THEN 1 ELSE 0)
        BY <1>1, <2>4 DEF Success
      <4>3. counts.success = (main.index + setup.interval - 1) \div setup.interval
        BY <3>1 DEF InferInv, SuccessPerInterval
      <4>4. (main.index + 1 + setup.interval - 1) \div setup.interval
              = (main.index + setup.interval - 1) \div setup.interval + (IF main.index % setup.interval = 0 THEN 1 ELSE 0)
        <5>1. \A n \in Nat \ {0}, k \in Nat :
                (k + 1 + n - 1) \div n = (k + n - 1) \div n + (IF k % n = 0 THEN 1 ELSE 0)
          BY OneMore
        <5>2. setup.interval \in Nat \ {0}
          BY <1>1, <3>1
        <5> QED BY <1>1, <5>1, <5>2, Zenon
      <4> QED BY <2>4, <4>1, <4>2, <4>3, <4>4
    <3> QED BY <2>1, <2>2, <3>1 DEF InferInv, SuccessPerInterval
  <2> QED BY <1>4, <2>3, <2>4 DEF FrameMoves
<1> QED BY <1>2, <1>3, <1>4 DEF UnitStep

\* Of the calls that return, the first of every interval was asked for an inference.
THEOREM InferenceCorrect == Spec => []SuccessPerInterval
<1>1. Init => InferInv
  <2> SUFFICES ASSUME Init PROVE InferInv
    OBVIOUS
  <2>1. setup.interval \in Nat /\ main.index = 0 /\ counts.success = 0 /\ main.pc = "starting"
    BY UnitAssumption DEF Init, SetupType
  <2>2. setup.interval > 0 => (0 + setup.interval - 1) \div setup.interval = 0
    BY <2>1, None
  <2> QED BY <2>1, <2>2 DEF InferInv, SuccessPerInterval, Asked
<1>2. TypeInv /\ InferInv /\ [Next]_vars => InferInv'
  BY NextMoves, InferKeeps DEF TypeInv
<1>3. InferInv => SuccessPerInterval
  BY DEF InferInv
<1> QED BY TypeInvariant, <1>1, <1>2, <1>3, PTL DEF Spec

-----------------------------------------------------------------------------
(***************************************************************************)
(* The jitter buffer.                                                      *)
(***************************************************************************)
Left(c) == Of(c) \ ToSet(released)

BufferInv ==
  /\ \A i \in DOMAIN arrived : arrived[i].by <= connections
  /\ IsInjective(released)
  /\ Left(connections) = buffer
  /\ \A c \in Nat : Cardinality(Left(c)) <= BufferSize

LEMMA BufferInitial == Init => BufferInv
<1> SUFFICES ASSUME Init PROVE BufferInv
  OBVIOUS
<1>1. arrived = <<>> /\ released = <<>> /\ buffer = {} /\ DOMAIN <<>> = {}
  BY DEF Init, ReceiveInit
<1>2. \A c : Left(c) = {}
  BY <1>1 DEF Left, Of
<1>3. \A c : Cardinality(Left(c)) <= BufferSize
  <2>1. Cardinality({}) = 0 /\ BufferSize \in Nat
    BY FS_EmptySet, ReceiveAssumption
  <2> QED BY <1>2, <2>1
<1> QED BY <1>1, <1>2, <1>3 DEF BufferInv, IsInjective

LEMMA BufferKeeps ==
  ASSUME ReceiveTypeOK, BufferInv, ReceiveStep
  PROVE  BufferInv'
<1>1. /\ arrived \in Seq([by : Nat, pts : Nat]) /\ released \in Seq(DOMAIN arrived) /\ connections \in Nat
      /\ buffer \subseteq DOMAIN arrived /\ BufferSize \in Nat
      /\ DOMAIN arrived = 1 .. Len(arrived) /\ Len(arrived) \in Nat /\ ToSet(released) \subseteq DOMAIN arrived
  BY ReceiveAssumption, LenProperties, Elements DEF ReceiveTypeOK
<1>2. \A i \in DOMAIN arrived : arrived[i].by \in Nat
  <2>1. \A i \in DOMAIN arrived : arrived[i] \in [by : Nat, pts : Nat]
    BY <1>1, ElementOfSeq
  <2> QED BY <2>1
<1>3. CASE Connects
  <2>1. connections' = connections + 1 /\ buffer' = {} /\ arrived' = arrived /\ released' = released
    BY <1>3 DEF Connects
  <2>2. \A c : Left(c)' = Left(c)
    BY <2>1 DEF Left, Of
  <2>3. Left(connections + 1) = {}
    BY <1>1, <1>2 DEF BufferInv, Left, Of
  <2>4. \A i \in DOMAIN arrived : arrived[i].by <= connections + 1
    BY <1>1, <1>2 DEF BufferInv
  <2>5. Left(connections)' = Left(connections + 1)
    BY <2>1 DEF Left, Of
  <2> QED BY <2>1, <2>2, <2>3, <2>4, <2>5 DEF BufferInv
<1>4. CASE ConnectFails \/ ReadFails \/ InputEnds \/ UNCHANGED receiveVars
  BY <1>4 DEF ConnectFails, ReadFails, InputEnds, receiveVars, BufferInv, Left, Of
<1>5. ASSUME NEW t \in Nat, Arrives(t) PROVE BufferInv'
  <2> DEFINE new == Len(arrived) + 1
             held == buffer \cup {new}
  <2>1. /\ arrived' \in Seq([by : Nat, pts : Nat]) /\ DOMAIN arrived' = 1 .. new /\ new \in 1 .. new
        /\ (\A i \in DOMAIN arrived : arrived'[i] = arrived[i]) /\ arrived'[new].by = connections
        /\ connections' = connections /\ new \notin DOMAIN arrived /\ DOMAIN arrived' = DOMAIN arrived \cup {new}
    <3>1. 1 .. Len(arrived) + 1 = (1 .. Len(arrived)) \cup {Len(arrived) + 1} /\ new \notin 1 .. Len(arrived)
      BY <1>1
    <3>2. connections' = connections
      BY <1>5 DEF Arrives
    <3> QED BY <1>1, <1>5, <3>1, <3>2, ArrivalIs
  <2>2. \A i \in DOMAIN arrived' : arrived'[i].by <= connections'
    <3>1. \A i \in DOMAIN arrived : arrived'[i].by <= connections'
      BY <2>1 DEF BufferInv
    <3>2. arrived'[new].by <= connections'
      BY <1>1, <2>1
    <3> HIDE DEF new
    <3> QED BY <2>1, <3>1, <3>2
  <2>3. Of(connections)' = Of(connections) \cup {new} /\ \A c \in Nat \ {connections} : Of(c)' = Of(c)
    <3> HIDE DEF new
    <3> QED BY <2>1 DEF Of
  <2>4. IsFiniteSet(buffer) /\ Cardinality(buffer) \in Nat /\ Cardinality(buffer) <= BufferSize
    <3>1. IsFiniteSet(1 .. Len(arrived))
      BY <1>1, FS_Interval, Len(arrived) \in Int
    <3>2. IsFiniteSet(buffer)
      BY <1>1, <3>1, FS_Subset
    <3> QED BY <1>1, <3>2, FS_CardinalityType DEF BufferInv
  <2>5. new \notin buffer /\ new \notin ToSet(released) /\ buffer \cap ToSet(released) = {}
    BY <1>1, <2>1 DEF BufferInv, Left
  <2>6. IsFiniteSet(held) /\ Cardinality(held) = Cardinality(buffer) + 1
    BY <2>4, <2>5, FS_AddElement
  <2>7. CASE ~(Cardinality(held) > BufferSize) /\ buffer' = held /\ released' = released
    <3>1. Left(connections)' = held
      BY <2>1, <2>3, <2>5, <2>7 DEF Left, BufferInv
    <3>2. Cardinality(held) <= BufferSize
      BY <1>1, <2>4, <2>6, <2>7
    <3>3. \A c \in Nat \ {connections} : Left(c)' = Left(c)
      BY <2>3, <2>7 DEF Left
    <3>4. \A c \in Nat : Cardinality(Left(c)') <= BufferSize
      BY <2>1, <3>1, <3>2, <3>3 DEF BufferInv
    <3> QED BY <2>1, <2>2, <2>7, <3>1, <3>4 DEF BufferInv
  <2>8. ASSUME Cardinality(held) > BufferSize, NEW p \in held, buffer' = held \ {p}, released' = Append(released, p)
        PROVE  BufferInv'
    <3>1. p \in DOMAIN arrived' /\ p \notin ToSet(released) /\ p \in Of(connections)'
      BY <1>1, <2>1, <2>3, <2>5, <2>8 DEF BufferInv, Left
    <3>2. ToSet(released') = ToSet(released) \cup {p} /\ IsInjective(released')
      <4>1. released \in Seq(DOMAIN arrived')
        BY <1>1, <2>1, SeqMonotonic
      <4> QED BY <2>8, <3>1, <4>1, AppendElements DEF BufferInv
    <3>3. Left(connections)' = held \ {p}
      BY <2>1, <2>3, <2>5, <3>2 DEF Left, BufferInv
    <3>4. Cardinality(held \ {p}) <= BufferSize
      <4>1. Cardinality(held \ {p}) = Cardinality(held) - 1
        <5> HIDE DEF held
        <5> QED BY <2>6, <2>8, FS_RemoveElement
      <4> QED BY <1>1, <2>4, <2>6, <4>1
    <3>5. ASSUME NEW c \in Nat \ {connections} PROVE Left(c)' = Left(c)
      <4>1. p \notin Of(c)
        BY <1>1, <2>1, <3>1, <3>5 DEF Of
      <4> QED BY <2>3, <3>2, <4>1 DEF Left
    <3>6. \A c \in Nat : Cardinality(Left(c)') <= BufferSize
      BY <2>1, <3>3, <3>4, <3>5 DEF BufferInv
    <3> QED BY <2>1, <2>2, <2>8, <3>2, <3>3, <3>6 DEF BufferInv
  <2> QED BY <1>5, <2>7, <2>8, ArrivalIs
<1> QED BY <1>3, <1>4, <1>5 DEF ReceiveStep

\* Every packet is handed on once or held, and a connection leaves no more behind than
\* the buffer holds.
THEOREM BufferCorrect == Spec => []HeldOrReleased
<1>1. TypeInv /\ BufferInv /\ [Next]_vars => BufferInv'
  BY NextReceives, BufferKeeps DEF TypeInv, TypeOK
<1>2. BufferInv => HeldOrReleased
  BY DEF BufferInv, HeldOrReleased, Left
<1> QED BY TypeInvariant, BufferInitial, <1>1, <1>2, PTL DEF Spec

(***************************************************************************)
(* The order of what is handed on.  A packet that is handed on leaves      *)
(* behind, or has had before it, more packets of no earlier time than the  *)
(* buffer holds; one that arrives later and should have come before it has *)
(* to let all of these pass, and is later than what the buffer makes up.   *)
(***************************************************************************)
Earlier(i, j) == arrived[i].pts < arrived[j].pts \/ (arrived[i].pts = arrived[j].pts /\ i < j)

NotBefore(p) == {k \in Of(arrived[p].by) : arrived[p].pts <= arrived[k].pts}

Passed(i) == {k \in Of(arrived[i].by) : k < i /\ arrived[k].pts > arrived[i].pts}

InTime(c) == \A i \in Of(c) : Lateness(i) <= BufferSize

OvertakenByMore == \A p \in ToSet(released) : Cardinality(NotBefore(p)) > BufferSize

RestComesLater ==
  \A c \in Nat : InTime(c) => \A p \in ToSet(released) \cap Of(c), q \in Left(c) : Earlier(p, q)

InTurn(j, k) == arrived[released[j]].by = arrived[released[k]].by => Earlier(released[j], released[k])

ByTime ==
  \A c \in Nat : InTime(c) =>
    \A j, k \in DOMAIN released : j < k /\ released[j] \in Of(c) => InTurn(j, k)

OrderInv == OvertakenByMore /\ RestComesLater /\ ByTime

LEMMA OrderInitial == Init => OrderInv
<1> SUFFICES ASSUME Init PROVE OrderInv
  OBVIOUS
<1>1. released = <<>> /\ DOMAIN <<>> = {} /\ ToSet(<<>>) = {}
  BY DEF Init, ReceiveInit, ToSet
<1> QED BY <1>1 DEF OrderInv, OvertakenByMore, RestComesLater, ByTime

\* What is known of the packets that are there, when another one arrives.
LEMMA PacketsStay ==
  ASSUME ReceiveTypeOK, NEW t \in Nat, Arrives(t)
  PROVE  LET new == Len(arrived) + 1
         IN  /\ new \in Nat /\ DOMAIN arrived' = DOMAIN arrived \cup {new}
             /\ DOMAIN arrived \subseteq Nat
             /\ \A i \in DOMAIN arrived : arrived'[i] = arrived[i] /\ i < new
             /\ arrived'[new].by = connections
             /\ \A i \in DOMAIN arrived' : arrived'[i].pts \in Nat /\ arrived'[i].by \in Nat
             /\ \A c : Of(c)' = IF c = connections THEN Of(c) \cup {new} ELSE Of(c)
             /\ \A i \in DOMAIN arrived : Passed(i)' = Passed(i) /\ Lateness(i)' = Lateness(i)
             /\ \A i \in DOMAIN arrived : NotBefore(i) \subseteq NotBefore(i)'
             /\ \A i \in DOMAIN arrived' : IsFiniteSet(Passed(i)') /\ IsFiniteSet(NotBefore(i)')
<1> DEFINE new == Len(arrived) + 1
<1>1. /\ arrived' \in Seq([by : Nat, pts : Nat]) /\ Len(arrived) \in Nat
      /\ DOMAIN arrived = 1 .. Len(arrived) /\ DOMAIN arrived' = 1 .. Len(arrived) + 1
      /\ (\A i \in DOMAIN arrived : arrived'[i] = arrived[i]) /\ arrived'[new].by = connections
  BY ArrivalIs
<1>2. /\ new \in Nat /\ DOMAIN arrived' = DOMAIN arrived \cup {new} /\ DOMAIN arrived \subseteq Nat
      /\ \A i \in DOMAIN arrived : i < new
  BY <1>1
<1>3. ASSUME NEW i \in DOMAIN arrived' PROVE arrived'[i].pts \in Nat /\ arrived'[i].by \in Nat
  <2>1. i \in 1 .. Len(arrived')
    BY <1>1, LenProperties
  <2>2. arrived'[i] \in [by : Nat, pts : Nat]
    BY <1>1, <2>1, ElementOfSeq
  <2> QED BY <2>2
<1>4. IsFiniteSet(DOMAIN arrived')
  <2>1. 1 \in Int /\ Len(arrived) + 1 \in Int
    BY <1>1
  <2> QED BY <1>1, <2>1, FS_Interval
<1> HIDE DEF new
<1>5. \A c : Of(c)' = IF c = connections THEN Of(c) \cup {new} ELSE Of(c)
  BY <1>1, <1>2 DEF Of
<1>6. ASSUME NEW i \in DOMAIN arrived
      PROVE  /\ Passed(i)' = Passed(i) /\ Lateness(i)' = Lateness(i)
             /\ NotBefore(i) \subseteq NotBefore(i)'
  <2>1. arrived'[i] = arrived[i] /\ i < new /\ i \in Nat /\ new \in Nat /\ ~(new < i)
    BY <1>1, <1>2
  <2>2. \A k \in Of(arrived[i].by) : arrived'[k] = arrived[k]
    BY <1>1 DEF Of
  <2>3. Passed(i)' = Passed(i)
    BY <1>5, <2>1, <2>2 DEF Passed
  <2>4. Lateness(i)' = Lateness(i)
    BY <2>3 DEF Lateness, Passed
  <2>5. NotBefore(i) \subseteq NotBefore(i)'
    BY <1>5, <2>1, <2>2 DEF NotBefore
  <2> QED BY <2>3, <2>4, <2>5
<1>7. ASSUME NEW i \in DOMAIN arrived' PROVE IsFiniteSet(Passed(i)') /\ IsFiniteSet(NotBefore(i)')
  <2>1. Passed(i)' \subseteq DOMAIN arrived' /\ NotBefore(i)' \subseteq DOMAIN arrived'
    BY DEF Passed, NotBefore, Of
  <2> QED BY <1>4, <2>1, FS_Subset
<1> QED BY <1>1, <1>2, <1>3, <1>5, <1>6, <1>7 DEF new

\* What has been handed on comes before everything that is held when a packet arrives,
\* unless that packet is later than the buffer makes up for.
LEMMA ReleasedBeforeHeld ==
  ASSUME ReceiveTypeOK, BufferInv, OrderInv, NEW t \in Nat, Arrives(t), InTime(connections)',
         NEW p \in ToSet(released) \cap Of(connections), NEW q \in buffer \cup {Len(arrived) + 1}
  PROVE  Earlier(p, q)'
<1> DEFINE new == Len(arrived) + 1
<1>1. /\ released \in Seq(DOMAIN arrived) /\ connections \in Nat /\ BufferSize \in Nat
      /\ buffer = Left(connections) /\ p \in DOMAIN arrived
  BY ReceiveAssumption DEF ReceiveTypeOK, BufferInv, Of
<1>2. /\ new \in Nat /\ DOMAIN arrived' = DOMAIN arrived \cup {new} /\ DOMAIN arrived \subseteq Nat
      /\ (\A i \in DOMAIN arrived : arrived'[i] = arrived[i] /\ i < new)
      /\ arrived'[new].by = connections
      /\ \A i \in DOMAIN arrived' : arrived'[i].pts \in Nat
      /\ \A c : Of(c)' = IF c = connections THEN Of(c) \cup {new} ELSE Of(c)
      /\ \A i \in DOMAIN arrived : Lateness(i)' = Lateness(i)
      /\ \A i \in DOMAIN arrived' : IsFiniteSet(Passed(i)')
  BY PacketsStay
<1>3. UNCHANGED connections
  BY DEF Arrives
<1> HIDE DEF new
<1>4. CASE q \in buffer
  <2>1. InTime(connections)
    BY <1>2, <1>3 DEF InTime, Of
  <2>2. Earlier(p, q) /\ q \in DOMAIN arrived
    BY <1>1, <1>4, <2>1 DEF OrderInv, RestComesLater, Left, Of
  <2> QED BY <1>1, <1>2, <2>2 DEF Earlier
<1>5. CASE q = new
  <2>0. /\ q \in Nat /\ q \in DOMAIN arrived' /\ (\A i \in DOMAIN arrived : i < q)
        /\ arrived'[q].by = connections /\ Of(connections)' = Of(connections) \cup {q}
    BY <1>2, <1>3, <1>5
  <2> SUFFICES ASSUME ~Earlier(p, q)' PROVE FALSE
    OBVIOUS
  <2>1. arrived'[q].pts < arrived[p].pts /\ arrived[p].by = connections
    <3>1. \A a, b \in Nat : ~(a < b) /\ ~(a = b) => b < a
      OBVIOUS
    <3>2. /\ arrived'[p].pts = arrived[p].pts /\ p < q /\ arrived[p].pts \in Nat
          /\ arrived'[q].pts \in Nat
      BY <1>1, <1>2, <2>0
    <3>3. ~(arrived[p].pts < arrived'[q].pts) /\ ~(arrived[p].pts = arrived'[q].pts)
      BY <3>2 DEF Earlier
    <3> QED BY <3>1, <3>2, <3>3 DEF Of
  <2>2. NotBefore(p) \subseteq Passed(q)'
    <3> SUFFICES ASSUME NEW k \in NotBefore(p) PROVE k \in Passed(q)'
      OBVIOUS
    <3>1. k \in Of(connections) /\ k \in DOMAIN arrived /\ arrived[p].pts <= arrived[k].pts
      BY <2>1 DEF NotBefore, Of
    <3>2. /\ arrived'[k].pts = arrived[k].pts /\ k < q /\ k \in Of(connections)'
          /\ arrived[k].pts \in Nat /\ arrived[p].pts \in Nat /\ arrived'[q].pts \in Nat
      BY <1>1, <1>2, <2>0, <3>1
    <3>3. arrived'[k].pts > arrived'[q].pts
      BY <2>1, <3>1, <3>2
    <3> QED BY <1>3, <2>0, <3>2, <3>3 DEF Passed, Of
  <2>3. Cardinality(NotBefore(p)) <= Cardinality(Passed(q)')
    BY <1>2, <2>0, <2>2, FS_Subset
  <2>4. Cardinality(NotBefore(p)) \in Nat /\ Cardinality(Passed(q)') \in Nat
    BY <1>2, <2>0, <2>2, FS_Subset, FS_CardinalityType
  <2>5. Cardinality(NotBefore(p)) > BufferSize
    BY DEF OrderInv, OvertakenByMore
  <2>6. Cardinality(Passed(q)') <= BufferSize
    BY <1>3, <2>0 DEF InTime, Lateness, Passed
  <2> QED BY <1>1, <2>3, <2>4, <2>5, <2>6
<1> QED BY <1>4, <1>5 DEF new

LEMMA OrderKeeps ==
  ASSUME ReceiveTypeOK, BufferInv, OrderInv, ReceiveStep
  PROVE  OrderInv'
<1>1. CASE Connects \/ ConnectFails \/ ReadFails \/ InputEnds \/ UNCHANGED receiveVars
  <2>1. arrived' = arrived /\ released' = released
    BY <1>1 DEF Connects, ConnectFails, ReadFails, InputEnds, receiveVars
  <2>2. OvertakenByMore'
    BY <2>1 DEF OrderInv, OvertakenByMore, NotBefore, Of
  <2>3. RestComesLater'
    BY <2>1 DEF OrderInv, RestComesLater, InTime, Lateness, Left, Earlier, Of
  <2>4. ByTime'
    BY <2>1 DEF OrderInv, ByTime, InTurn, Earlier, InTime, Lateness, Of
  <2> QED BY <2>2, <2>3, <2>4 DEF OrderInv
<1>2. ASSUME NEW t \in Nat, Arrives(t) PROVE OrderInv'
  <2> DEFINE new == Len(arrived) + 1
             held == buffer \cup {new}
  <2>1. /\ released \in Seq(DOMAIN arrived) /\ connections \in Nat /\ BufferSize \in Nat
        /\ buffer = Left(connections) /\ UNCHANGED connections
        /\ ToSet(released) \subseteq DOMAIN arrived
    BY <1>2, ReceiveAssumption, Elements DEF ReceiveTypeOK, BufferInv, Arrives
  <2>2. /\ new \in Nat /\ DOMAIN arrived' = DOMAIN arrived \cup {new} /\ DOMAIN arrived \subseteq Nat
        /\ (\A i \in DOMAIN arrived : arrived'[i] = arrived[i] /\ i < new)
        /\ arrived'[new].by = connections
        /\ (\A i \in DOMAIN arrived' : arrived'[i].pts \in Nat /\ arrived'[i].by \in Nat)
        /\ \A c : Of(c)' = IF c = connections THEN Of(c) \cup {new} ELSE Of(c)
        /\ (\A i \in DOMAIN arrived : Lateness(i)' = Lateness(i) /\ NotBefore(i) \subseteq NotBefore(i)')
        /\ \A i \in DOMAIN arrived' : IsFiniteSet(NotBefore(i)')
    BY <1>2, PacketsStay
  <2>3. \A c : InTime(c)' => InTime(c)
    BY <2>1, <2>2 DEF InTime, Of
  <2>4. \A p \in ToSet(released) : Cardinality(NotBefore(p)') > BufferSize
    <3> SUFFICES ASSUME NEW p \in ToSet(released) PROVE Cardinality(NotBefore(p)') > BufferSize
      OBVIOUS
    <3>1. NotBefore(p) \subseteq NotBefore(p)' /\ IsFiniteSet(NotBefore(p)')
      BY <2>1, <2>2
    <3>2. /\ Cardinality(NotBefore(p)) <= Cardinality(NotBefore(p)')
          /\ Cardinality(NotBefore(p)) \in Nat /\ Cardinality(NotBefore(p)') \in Nat
      BY <3>1, FS_Subset, FS_CardinalityType
    <3>3. Cardinality(NotBefore(p)) > BufferSize
      BY DEF OrderInv, OvertakenByMore
    <3> QED BY <2>1, <3>2, <3>3
  <2>5. ASSUME InTime(connections)', NEW p \in ToSet(released) \cap Of(connections), NEW q \in held
        PROVE  Earlier(p, q)'
    BY <1>2, <2>5, ReleasedBeforeHeld
  <2>6. \A i, j \in DOMAIN arrived : Earlier(i, j)' = Earlier(i, j)
    BY <2>2 DEF Earlier
  <2>7. /\ held \subseteq Of(connections)' /\ held \subseteq DOMAIN arrived'
        /\ new \notin DOMAIN arrived /\ new \notin ToSet(released)
    <3>1. ~(new < new)
      BY <2>2
    <3> HIDE DEF new
    <3>2. new \notin DOMAIN arrived
      BY <2>2, <3>1
    <3> QED BY <2>1, <2>2, <3>2 DEF Left, Of
  <2> HIDE DEF new
  \* Whether a packet comes out or not, the packets that were out are before the rest.
  <2>8. ASSUME NEW out, ToSet(released') = ToSet(released) \cup out, out \subseteq held,
               \A p \in out, q \in held \ out : Earlier(p, q)'
        PROVE  RestComesLater'
    <3> SUFFICES ASSUME NEW c \in Nat, InTime(c)', NEW p \in ToSet(released') \cap Of(c)',
                        NEW q \in Left(c)'
                 PROVE  Earlier(p, q)'
      BY DEF RestComesLater
    <3>1. CASE c = connections
      <4>1. q \in held \ out
        BY <2>1, <2>2, <2>8, <3>1 DEF Left
      <4>2. CASE p \in out
        BY <2>8, <4>1, <4>2
      <4>3. CASE p \in ToSet(released)
        BY <2>1, <2>2, <2>5, <2>7, <3>1, <4>1, <4>3
      <4> QED BY <2>8, <4>2, <4>3
    <3>2. CASE c # connections
      <4>1. p \in Of(c) /\ q \in Of(c) /\ q \notin ToSet(released)
        BY <2>2, <2>8, <3>2 DEF Left
      <4>2. p \notin out
        BY <2>2, <2>7, <2>8, <3>2, <4>1 DEF Of
      <4>3. Earlier(p, q)
        BY <2>3, <2>8, <4>1, <4>2 DEF OrderInv, RestComesLater, Left
      <4> QED BY <2>6, <4>1, <4>3 DEF Of
    <3> QED BY <3>1, <3>2
  <2>9. \A j \in DOMAIN released : released[j] \in DOMAIN arrived /\ released[j] \in ToSet(released)
    BY <2>1 DEF ToSet
  \* The packets that were out stay in turn.
  <2>10. ASSUME NEW c \in Nat, InTime(c)', NEW j \in DOMAIN released, NEW k \in DOMAIN released,
                j < k, released[j] \in Of(c)', released'[j] = released[j], released'[k] = released[k]
         PROVE  InTurn(j, k)'
    <3>1. InTime(c) /\ released[j] \in Of(c)
      BY <2>2, <2>3, <2>9, <2>10 DEF Of
    <3>2. InTurn(j, k)
      BY <2>10, <3>1 DEF OrderInv, ByTime
    <3> QED BY <2>2, <2>9, <2>10, <3>2 DEF InTurn, Earlier
  <2>11. CASE buffer' = held /\ released' = released
    <3>1. OvertakenByMore'
      BY <2>4, <2>11 DEF OvertakenByMore
    <3>2. RestComesLater'
      <4> DEFINE out == {}
      <4>1. ToSet(released') = ToSet(released) \cup out /\ out \subseteq held
            /\ \A p \in out, q \in held \ out : Earlier(p, q)'
        BY <2>11
      <4> HIDE DEF out
      <4> QED BY <2>8, <4>1
    <3>3. ByTime'
      BY <2>11, <2>9, <2>10 DEF ByTime
    <3> QED BY <3>1, <3>2, <3>3 DEF OrderInv
  <2>12. ASSUME Cardinality(held) > BufferSize, NEW p \in held, \A j \in held : Before(p, j),
                buffer' = held \ {p}, released' = Append(released, p)
         PROVE  OrderInv'
    <3>1. /\ released \in Seq(DOMAIN arrived') /\ p \in DOMAIN arrived' /\ p \in Of(connections)'
          /\ DOMAIN released = 1 .. Len(released) /\ Len(released) \in Nat
      BY <2>1, <2>2, <2>7, <2>12, LenProperties, SeqMonotonic
    <3>2. /\ ToSet(released') = ToSet(released) \cup {p}
          /\ DOMAIN released' = 1 .. Len(released) + 1 /\ released'[Len(released) + 1] = p
          /\ \A j \in 1 .. Len(released) : released'[j] = released[j]
      BY <2>12, <3>1, AppendElements, AppendProperties, LenProperties
    <3>3. \A q \in held \ {p} : Earlier(p, q)'
      <4> SUFFICES ASSUME NEW q \in held, q # p PROVE Earlier(p, q)'
        OBVIOUS
      <4>1. Before(p, q) /\ p \in Nat /\ q \in Nat
        BY <2>2, <2>7, <2>12
      <4>2. \A a, b \in Nat : a <= b /\ b # a => a < b
        OBVIOUS
      <4> QED BY <4>1, <4>2 DEF Before, Earlier
    <3>4. RestComesLater'
      <4> DEFINE out == {p}
      <4>1. ToSet(released') = ToSet(released) \cup out /\ out \subseteq held
            /\ \A o \in out, q \in held \ out : Earlier(o, q)'
        BY <2>12, <3>2, <3>3
      <4> HIDE DEF out
      <4> QED BY <2>8, <4>1
    \* What the buffer holds with the new packet is not before the one that comes out.
    <3>5. Cardinality(NotBefore(p)') > BufferSize
      <4>1. held \subseteq NotBefore(p)'
        <5> SUFFICES ASSUME NEW j \in held PROVE j \in NotBefore(p)'
          OBVIOUS
        <5>1. /\ j \in DOMAIN arrived' /\ arrived'[j].by = connections /\ arrived'[p].by = connections
              /\ arrived'[j].pts \in Nat /\ arrived'[p].pts \in Nat
          BY <2>1, <2>2, <2>7, <3>1 DEF Of
        <5>2. \A a, b \in Nat : a < b \/ a = b => a <= b
          OBVIOUS
        <5>3. arrived'[p].pts <= arrived'[j].pts
          BY <2>12, <5>1, <5>2 DEF Before
        <5> QED BY <5>1, <5>3 DEF NotBefore, Of
      <4>2. IsFiniteSet(NotBefore(p)')
        BY <2>2, <3>1
      <4>3. Cardinality(held) <= Cardinality(NotBefore(p)')
            /\ Cardinality(held) \in Nat /\ Cardinality(NotBefore(p)') \in Nat
        BY <4>1, <4>2, FS_Subset, FS_CardinalityType
      <4> QED BY <2>1, <2>12, <4>3
    <3>6. OvertakenByMore'
      BY <2>4, <3>2, <3>5 DEF OvertakenByMore
    <3>7. ByTime'
      <4> SUFFICES ASSUME NEW c \in Nat, InTime(c)', NEW j \in DOMAIN released', NEW k \in DOMAIN released',
                          j < k, released'[j] \in Of(c)'
                   PROVE  InTurn(j, k)'
        BY DEF ByTime
      <4>1. j \in DOMAIN released /\ (k \in DOMAIN released \/ k = Len(released) + 1)
        BY <3>1, <3>2
      <4>2. CASE k \in DOMAIN released
        BY <2>10, <3>1, <3>2, <4>1, <4>2
      <4>3. CASE k = Len(released) + 1
        <5>1. released'[j] = released[j] /\ released'[k] = p
          BY <3>1, <3>2, <4>1, <4>3
        <5> SUFFICES ASSUME arrived'[released[j]].by = arrived'[p].by
                     PROVE  (arrived'[released[j]].pts < arrived'[p].pts
                              \/ (arrived'[released[j]].pts = arrived'[p].pts /\ released[j] < p))
          BY <5>1 DEF InTurn, Earlier
        <5>2. c = connections /\ arrived'[p].by = connections /\ released[j] \in Of(connections)
          BY <2>1, <2>2, <2>9, <3>1, <4>1, <5>1 DEF Of
        <5>3. PICK o \in ToSet(released) \cap Of(connections) : o = released[j]
          BY <2>9, <4>1, <5>2
        <5>4. InTime(connections)'
          BY <2>1, <5>2 DEF InTime
        <5>5. Earlier(o, p)'
          BY <2>5, <2>12, <5>4
        <5> QED BY <5>3, <5>5 DEF Earlier
      <4> QED BY <4>1, <4>2, <4>3
    <3> QED BY <3>4, <3>6, <3>7 DEF OrderInv
  <2> QED BY <1>2, <2>11, <2>12, ArrivalIs DEF new
<1> QED BY <1>1, <1>2 DEF ReceiveStep

LEMMA InOrder == ReceiveTypeOK /\ OrderInv => ReleasedInOrder
<1> SUFFICES ASSUME ReceiveTypeOK, OrderInv, NEW j \in DOMAIN released, NEW k \in DOMAIN released, j < k,
                    arrived[released[j]].by = arrived[released[k]].by, InTime(arrived[released[j]].by)
             PROVE  Earlier(released[j], released[k])
  BY DEF ReleasedInOrder, InTime, Earlier
<1>1. arrived \in Seq([by : Nat, pts : Nat]) /\ released \in Seq(DOMAIN arrived)
      /\ DOMAIN arrived = 1 .. Len(arrived) /\ DOMAIN released = 1 .. Len(released)
  BY LenProperties DEF ReceiveTypeOK
<1>2. released[j] \in DOMAIN arrived
  BY <1>1, ElementOfSeq
<1>3. arrived[released[j]] \in [by : Nat, pts : Nat]
  BY <1>1, <1>2, ElementOfSeq
<1>4. arrived[released[j]].by \in Nat /\ released[j] \in Of(arrived[released[j]].by)
  BY <1>2, <1>3 DEF Of
<1> QED BY <1>4 DEF OrderInv, ByTime, InTurn

\* The jitter buffer (receive.py:144) hands the packets of a connection on by time, and
\* those of one time in the order of arrival, when none is later than it makes up for.
THEOREM OrderCorrect == Spec => []ReleasedInOrder
<1>1. TypeInv /\ BufferInv /\ OrderInv /\ [Next]_vars => BufferInv' /\ OrderInv'
  BY NextReceives, BufferKeeps, OrderKeeps DEF TypeInv, TypeOK
<1>2. TypeInv /\ OrderInv => ReleasedInOrder
  BY InOrder DEF TypeInv, TypeOK
<1> QED BY TypeInvariant, BufferInitial, OrderInitial, <1>1, <1>2, PTL DEF Spec

-----------------------------------------------------------------------------
(***************************************************************************)
(* The queue of results.  A result is in one place at a time.  A step is   *)
(* seen as what it does to the sets of results in these places: what a     *)
(* result promises is about sets, and so is what has to be known about     *)
(* them.                                                                   *)
(***************************************************************************)
Incoming == ToSet(incoming)
Pending == ToSet(pending)
Todo == ToSet(todo)
InHand == {publisher.result} \ {NoResult}
Queued == ToSet(cpuQueue)
Done == ToSet(consumed)
Copying == ToSet(copying)

InLine == Incoming \cup Pending \cup Todo \cup InHand \cup Queued \cup Done

Apart ==
  /\ Incoming \cap (Pending \cup Todo \cup InHand \cup Queued \cup Done) = {}
  /\ Pending \cap (Todo \cup InHand \cup Queued \cup Done) = {}
  /\ Todo \cap (InHand \cup Queued \cup Done) = {}
  /\ InHand \cap (Queued \cup Done) = {}
  /\ Queued \cap Done = {}

\* No result is twice in one place.
Once == IsInjective(incoming) /\ IsInjective(pending) /\ IsInjective(todo) /\ IsInjective(cpuQueue)

\* Where the publisher has a result in hand, and when its list is empty.
Handling ==
  /\ publisher.pc \notin {"evicting", "replacing"} => publisher.result = NoResult
  /\ publisher.pc \in {"none", "waiting", "ended"} => todo = <<>>

\* Nothing in line or on the copy stream is from a later frame, or from the frame that
\* is under way.
Numbered == \A r \in InLine \cup Copying : r <= counts.received /\ (main.pc \in Inside => r < counts.received)

PlacesInv == Apart /\ Once /\ Handling /\ Numbered

Submitted(r) ==
  /\ At("submitting") /\ main'.pc = "encoding" /\ r = counts.received
  /\ Incoming' = Incoming \cup {r} /\ copying' = Append(copying, r)
  /\ UNCHANGED <<Pending, Todo, InHand, Queued, Done, consumed>>

Collected ==
  /\ Todo = {} /\ Todo' = Incoming \cup Pending /\ Incoming' = {} /\ Pending' = {}
  /\ UNCHANGED <<InHand, Queued, Done, consumed, copying>>

LeftPending(r) ==
  /\ Todo' = Todo \ {r} /\ Pending' = Pending \cup {r}
  /\ UNCHANGED <<Incoming, InHand, Queued, Done, consumed, copying, publisher>>

Published(r) ==
  /\ r \notin Copying /\ Todo' = Todo \ {r} /\ Queued' = Queued \cup {r}
  /\ UNCHANGED <<Incoming, Pending, InHand, Done, consumed, copying>>

FoundFull(r) ==
  /\ r \notin Copying /\ Todo' = Todo \ {r} /\ InHand = {} /\ InHand' = {r}
  /\ UNCHANGED <<Incoming, Pending, Queued, Done, consumed, copying>>

Evicted(r) ==
  /\ publisher.pc = "evicting" /\ InHand # {} /\ Queued' = Queued \ {r}
  /\ UNCHANGED <<Incoming, Pending, Todo, InHand, Done, consumed, copying>>

GaveUp ==
  /\ publisher.pc = "evicting" /\ InHand # {} /\ Queued = {} /\ InHand' = {}
  /\ UNCHANGED <<Incoming, Pending, Todo, Queued, Done, consumed, copying>>

Replaced ==
  /\ Queued' = Queued \cup InHand /\ InHand' = {}
  /\ UNCHANGED <<Incoming, Pending, Todo, Done, consumed, copying>>

Taken(r) ==
  /\ Queued' = Queued \ {r} /\ Done' = Done \cup {r} /\ consumed' = Append(consumed, r)
  /\ UNCHANGED <<Incoming, Pending, Todo, InHand, copying, publisher>>

Copied ==
  /\ copying # <<>> /\ copying' = Tail(copying)
  /\ UNCHANGED <<Incoming, Pending, Todo, InHand, Queued, Done, consumed, publisher>>

Stayed ==
  /\ UNCHANGED <<Incoming, Pending, Todo, InHand, Queued, Done, consumed, copying>>

Shift ==
  \/ \E r \in Results : Submitted(r)
  \/ \E r \in Todo : LeftPending(r) \/ Published(r) \/ FoundFull(r)
  \/ \E r \in Queued : Evicted(r) \/ Taken(r)
  \/ Collected \/ GaveUp \/ Replaced \/ Copied \/ Stayed

LEMMA QueueShifts ==
  ASSUME TypeInv, PlacesInv, QueueStep
  PROVE  Shift /\ Once' /\ Handling'
<1>1. /\ copying \in Seq(Results) /\ incoming \in Seq(Results) /\ pending \in Seq(Results)
      /\ todo \in Seq(Results) /\ cpuQueue \in Seq(Results) /\ consumed \in Seq(Results)
      /\ Len(cpuQueue) <= QueueSize /\ Len(cpuQueue) \in Nat /\ QueueSize \in Nat /\ NoResult \notin Results
      /\ publisher \in PublisherType
  BY QueueAssumption, LenProperties DEF TypeInv, TypeOK, QueueTypeOK, PublisherType, NoResult
<1>2. /\ publisher.pc \in {"evicting", "replacing"} => publisher.result \in Results
      /\ At("submitting") => counts.received \in Results
  BY DEF TypeInv, Putting, UnderWay, At
<1>3. IsInjective(<<>>) /\ ToSet(<<>>) = {}
  BY DEF IsInjective, ToSet
<1>4. ASSUME NEW s \in Seq(Results), s # <<>>, IsInjective(s)
      PROVE  /\ Head(s) \in Results /\ Head(s) \in ToSet(s) /\ Tail(s) \in Seq(Results)
             /\ ToSet(Tail(s)) = ToSet(s) \ {Head(s)} /\ IsInjective(Tail(s))
  BY <1>4, TailElements
<1>5. ASSUME NEW s \in Seq(Results), NEW r \in Results
      PROVE  /\ ToSet(Append(s, r)) = ToSet(s) \cup {r}
             /\ IsInjective(s) /\ r \notin ToSet(s) => IsInjective(Append(s, r))
  BY AppendElements
<1> DEFINE Goal == Shift /\ Once' /\ Handling'
<1>6. CASE At("submitting") /\ Submit(counts.received) /\ main'.pc = "encoding"
  <2>1. Incoming' = Incoming \cup {counts.received} /\ IsInjective(incoming')
    <3>1. counts.received \notin Incoming
      <4>1. counts.received \in Nat /\ main.pc \in Inside
        BY <1>6 DEF TypeInv, TypeOK, Inside, At
      <4>2. \A r \in Incoming : r < counts.received
        BY <4>1 DEF PlacesInv, Numbered, InLine
      <4> QED BY <4>1, <4>2
    <3> QED BY <1>1, <1>2, <1>5, <1>6, <3>1 DEF Submit, Incoming, PlacesInv, Once
  <2>2. publisher'.result = publisher.result /\ publisher'.pc = IF publisher.pc = "none" THEN "scanning" ELSE publisher.pc
    BY <1>1, <1>6 DEF Submit, PublisherType
  <2>3. Submitted(counts.received)
    BY <1>6, <2>1, <2>2 DEF Submit, Submitted, Pending, Todo, InHand, Queued, Done
  <2>4. Handling'
    BY <1>6, <2>2 DEF Submit, PlacesInv, Handling
  <2> QED BY <1>2, <1>6, <2>1, <2>3, <2>4 DEF Submit, Shift, PlacesInv, Once
<1>7. CASE Collect
  <2>1. Todo' = Incoming \cup Pending /\ IsInjective(todo') /\ Incoming' = {} /\ Pending' = {}
    <3>1. Pending \cap Incoming = {}
      BY DEF PlacesInv, Apart
    <3> QED BY <1>1, <1>3, <1>7, <3>1, ConcatElements DEF Collect, Incoming, Pending, Todo, PlacesInv, Once
  <2>2. publisher'.result = publisher.result /\ publisher'.pc = "scanning" /\ publisher.result = NoResult /\ todo = <<>>
    BY <1>1, <1>7 DEF Collect, PublisherType, PlacesInv, Handling
  <2>3. Todo = {}
    BY <1>3, <2>2 DEF Todo
  <2> QED BY <1>3, <1>7, <2>1, <2>2, <2>3
        DEF Collect, Shift, Collected, PlacesInv, Once, Handling, InHand, Queued, Done
<1>8. CASE LeavePending
  <2> DEFINE h == Head(todo)
  <2>1. h \in Results /\ h \in Todo /\ Todo' = Todo \ {h} /\ IsInjective(todo')
    BY <1>1, <1>4, <1>8 DEF LeavePending, Todo, PlacesInv, Once
  <2>2. Pending' = Pending \cup {h} /\ IsInjective(pending')
    <3>1. h \notin Pending
      BY <2>1 DEF PlacesInv, Apart
    <3> QED BY <1>1, <1>5, <1>8, <2>1, <3>1 DEF LeavePending, Pending, PlacesInv, Once
  <2>3. LeftPending(h)
    BY <1>8, <2>1, <2>2 DEF LeavePending, LeftPending, Incoming, InHand, Queued, Done
  <2> HIDE DEF h
  <2> QED BY <1>8, <2>1, <2>2, <2>3 DEF LeavePending, Shift, PlacesInv, Once, Handling
<1>9. CASE Publish
  <2> DEFINE h == Head(todo)
  <2>1. h \in Results /\ h \in Todo /\ Todo' = Todo \ {h} /\ IsInjective(todo')
    BY <1>1, <1>4, <1>9 DEF Publish, Todo, PlacesInv, Once
  <2>2. h \notin Copying /\ publisher.pc = "scanning" /\ publisher.result = NoResult
    BY <1>9 DEF Publish, Ready, Copying, PlacesInv, Handling
  <2>3. CASE Len(cpuQueue) < QueueSize
    <3>1. Queued' = Queued \cup {h} /\ IsInjective(cpuQueue')
      <4>1. h \notin Queued
        BY <2>1 DEF PlacesInv, Apart
      <4>2. cpuQueue' = Append(cpuQueue, h)
        BY <1>9, <2>3 DEF Publish
      <4> QED BY <1>1, <1>5, <2>1, <4>1, <4>2 DEF Queued, PlacesInv, Once
    <3>2. Published(h)
      BY <1>9, <2>1, <2>2, <2>3, <3>1 DEF Publish, Published, Incoming, Pending, InHand, Done
    <3> HIDE DEF h
    <3> QED BY <1>9, <2>1, <2>2, <2>3, <3>1, <3>2 DEF Publish, Shift, PlacesInv, Once, Handling
  <2>4. CASE ~(Len(cpuQueue) < QueueSize)
    <3>1. publisher' = [pc |-> "evicting", result |-> h] /\ cpuQueue' = cpuQueue
      BY <1>9, <2>4 DEF Publish
    <3>2. InHand = {} /\ InHand' = {h}
      BY <1>1, <2>1, <2>2, <3>1 DEF InHand
    <3>3. FoundFull(h)
      BY <1>9, <2>1, <2>2, <3>1, <3>2 DEF Publish, FoundFull, Incoming, Pending, Queued, Done
    <3>4. Handling'
      BY <3>1 DEF Handling
    <3> HIDE DEF h
    <3> QED BY <1>9, <2>1, <3>1, <3>3, <3>4 DEF Publish, Shift, PlacesInv, Once
  <2> QED BY <2>3, <2>4
<1>10. CASE Evict
  <2>1. publisher.pc = "evicting" /\ InHand # {}
    BY <1>1, <1>2, <1>10 DEF Evict, InHand
  <2>2. CASE cpuQueue = <<>>
    <3>1. publisher' = [pc |-> "scanning", result |-> NoResult] /\ cpuQueue' = cpuQueue
      BY <1>10, <2>2 DEF Evict
    <3>2. Queued = {} /\ InHand' = {}
      BY <1>3, <2>2, <3>1 DEF Queued, InHand
    <3>3. GaveUp
      BY <1>10, <2>1, <3>1, <3>2 DEF Evict, GaveUp, Incoming, Pending, Todo, Queued, Done
    <3> QED BY <1>10, <3>1, <3>3 DEF Evict, Shift, PlacesInv, Once, Handling
  <2>3. CASE cpuQueue # <<>>
    <3>1. cpuQueue' = Tail(cpuQueue) /\ publisher'.pc = "replacing" /\ publisher'.result = publisher.result
      BY <1>1, <1>10, <2>3 DEF Evict, PublisherType
    <3>2. Head(cpuQueue) \in Queued /\ Queued' = Queued \ {Head(cpuQueue)} /\ IsInjective(cpuQueue')
      BY <1>1, <1>4, <2>3, <3>1 DEF Queued, PlacesInv, Once
    <3>3. Evicted(Head(cpuQueue))
      BY <1>10, <2>1, <3>1, <3>2 DEF Evict, Evicted, Incoming, Pending, Todo, InHand, Done
    <3> QED BY <1>10, <3>1, <3>2, <3>3 DEF Evict, Shift, PlacesInv, Once, Handling
  <2> QED BY <2>2, <2>3
<1>11. CASE Replace
  <2>1. publisher.result \in Results /\ InHand = {publisher.result}
    BY <1>1, <1>2, <1>11 DEF Replace, InHand
  <2>2. publisher' = [pc |-> "scanning", result |-> NoResult] /\ cpuQueue' = Append(cpuQueue, publisher.result)
    BY <1>11 DEF Replace
  <2>3. Queued' = Queued \cup InHand /\ IsInjective(cpuQueue') /\ InHand' = {}
    <3>1. publisher.result \notin Queued
      BY <2>1 DEF PlacesInv, Apart
    <3>2. InHand' = {}
      BY <2>2 DEF InHand
    <3> QED BY <1>1, <1>5, <2>1, <2>2, <3>1, <3>2 DEF Queued, PlacesInv, Once
  <2>4. Replaced
    BY <1>11, <2>2, <2>3 DEF Replace, Replaced, Incoming, Pending, Todo, Done
  <2> QED BY <1>11, <2>2, <2>3, <2>4 DEF Replace, Shift, PlacesInv, Once, Handling
<1>12. CASE ScanEnds
  <2>1. publisher'.pc \in {"ended", "waiting"} /\ publisher'.result = publisher.result /\ todo = <<>> /\ todo' = todo
        /\ publisher.result = NoResult
    BY <1>1, <1>12 DEF ScanEnds, PublisherType, PlacesInv, Handling
  <2>2. Stayed
    BY <1>12, <2>1 DEF ScanEnds, Stayed, Incoming, Pending, Todo, InHand, Queued, Done
  <2> QED BY <1>12, <2>1, <2>2 DEF ScanEnds, Shift, PlacesInv, Once, Handling
<1>13. CASE CopyCompletes
  BY <1>13 DEF CopyCompletes, Shift, Copied, PlacesInv, Once, Handling, Incoming, Pending, Todo, InHand, Queued, Done
<1>14. CASE GetResult
  <2>1. Head(cpuQueue) \in Queued /\ Head(cpuQueue) \in Results /\ Queued' = Queued \ {Head(cpuQueue)} /\ IsInjective(cpuQueue')
    BY <1>1, <1>4, <1>14 DEF GetResult, Queued, PlacesInv, Once
  <2>2. Done' = Done \cup {Head(cpuQueue)} /\ consumed' = Append(consumed, Head(cpuQueue))
    BY <1>1, <1>5, <1>14, <2>1 DEF GetResult, Done
  <2>3. Taken(Head(cpuQueue))
    BY <1>14, <2>1, <2>2 DEF GetResult, Taken, Incoming, Pending, Todo, InHand
  <2> QED BY <1>14, <2>1, <2>3 DEF GetResult, Shift, PlacesInv, Once, Handling
<1>15. CASE ConsumerTop \/ CallEnds \/ ConsumerMoves \/ StopIsSet \/ UNCHANGED queueVars
  <2>1. UNCHANGED <<copying, incoming, pending, todo, cpuQueue, publisher, consumed>>
    BY <1>15 DEF ConsumerTop, CallEnds, ConsumerMoves, StopIsSet, queueVars
  <2>2. Stayed
    BY <2>1 DEF Stayed, Incoming, Pending, Todo, InHand, Queued, Done
  <2> QED BY <2>1, <2>2 DEF Shift, PlacesInv, Once, Handling
<1>16. ASSUME Goes("encoding") PROVE main'.pc = "encoding"
  BY <1>16 DEF Goes, TypeInv, TypeOK
<1> QED
  BY <1>6, <1>7, <1>8, <1>9, <1>10, <1>11, <1>12, <1>13, <1>14, <1>15, <1>16
  DEF QueueStep, PublisherStep, ConsumerStep

LEMMA CopyingShifts ==
  ASSUME TypeInv, Shift
  PROVE  Copying' \subseteq Copying \cup {counts.received}
         /\ (~At("submitting") => Copying' \subseteq Copying)
         /\ InLine' \subseteq InLine \cup {counts.received}
         /\ (~At("submitting") => InLine' \subseteq InLine)
<1>1. copying \in Seq(Results)
  BY DEF TypeInv, TypeOK, QueueTypeOK
<1> USE DEF Copying, InLine
<1>2. ASSUME NEW r \in Results, Submitted(r)
      PROVE  Copying' = Copying \cup {r} /\ InLine' = InLine \cup {r} /\ r = counts.received /\ At("submitting")
  BY <1>1, <1>2, AppendElements DEF Submitted
<1>3. CASE Copied
  BY <1>1, <1>3, TailElements DEF Copied
<1>4. ASSUME NEW r \in Todo, LeftPending(r) \/ Published(r) \/ FoundFull(r) PROVE copying' = copying /\ InLine' \subseteq InLine
  BY <1>4 DEF LeftPending, Published, FoundFull
<1>5. ASSUME NEW r \in Queued, Evicted(r) \/ Taken(r) PROVE copying' = copying /\ InLine' \subseteq InLine
  BY <1>5 DEF Evicted, Taken
<1>6. CASE Collected \/ GaveUp \/ Replaced \/ Stayed
  BY <1>6 DEF Collected, GaveUp, Replaced, Stayed
<1> QED BY <1>2, <1>3, <1>4, <1>5, <1>6 DEF Shift

LEMMA NumbersKeep ==
  ASSUME TypeInv, Numbered, Shift, UnitStep
  PROVE  Numbered'
<1>1. counts.received \in Nat /\ \A r \in InLine \cup Copying : r \in Nat
  <2>1. /\ copying \in Seq(Results) /\ incoming \in Seq(Results) /\ pending \in Seq(Results)
        /\ todo \in Seq(Results) /\ cpuQueue \in Seq(Results) /\ consumed \in Seq(Results) /\ Results \subseteq Nat
        /\ publisher.result \in Results \cup {NoResult}
    BY QueueAssumption DEF TypeInv, TypeOK, QueueTypeOK
  <2>2. \A s \in Seq(Results) : ToSet(s) \subseteq Results
    BY Elements
  <2> QED BY <2>1, <2>2 DEF TypeInv, TypeOK, InLine, Incoming, Pending, Todo, InHand, Queued, Done, Copying
<1>2. InLine' \cup Copying' \subseteq InLine \cup Copying \cup {counts.received}
      /\ (~At("submitting") => InLine' \cup Copying' \subseteq InLine \cup Copying)
  BY CopyingShifts
<1>3. ASSUME main.pc = "submitting", main'.pc \in Inside PROVE InLine' \cup Copying' \subseteq InLine \cup Copying
  <2>1. ASSUME NEW r \in Results, Submitted(r) PROVE FALSE
    BY <1>3, <2>1 DEF Submitted, Inside
  <2>2. CASE Copied
    <3>1. copying \in Seq(Results)
      BY DEF TypeInv, TypeOK, QueueTypeOK
    <3> QED BY <2>2, <3>1, TailElements DEF Copied, InLine, Copying
  <2>3. ASSUME NEW r \in Todo, LeftPending(r) \/ Published(r) \/ FoundFull(r) PROVE copying' = copying /\ InLine' \subseteq InLine
    BY <2>3 DEF LeftPending, Published, FoundFull, InLine
  <2>4. ASSUME NEW r \in Queued, Evicted(r) \/ Taken(r) PROVE copying' = copying /\ InLine' \subseteq InLine
    BY <2>4 DEF Evicted, Taken, InLine
  <2>5. CASE Collected \/ GaveUp \/ Replaced \/ Stayed
    BY <2>5 DEF Collected, GaveUp, Replaced, Stayed, InLine, Copying
  <2> QED BY <2>1, <2>2, <2>3, <2>4, <2>5 DEF Shift, Copying
<1>4. CASE NextFrame
  <2>1. counts'.received = counts.received + 1
    BY <1>4 DEF NextFrame, TypeInv, TypeOK
  <2>2. InLine' \cup Copying' \subseteq InLine \cup Copying
    BY <1>2, <1>4 DEF NextFrame, At
  <2>3. \A r \in InLine \cup Copying : r < counts.received + 1 /\ r <= counts.received + 1
    BY <1>1 DEF Numbered
  <2> QED BY <2>1, <2>2, <2>3 DEF Numbered
<1>5. CASE Send
  <2>1. counts'.received = counts.received /\ main'.pc = "receiving" /\ InLine' \cup Copying' \subseteq InLine \cup Copying
    BY <1>2, <1>5 DEF Send, At, Goes, TypeInv, TypeOK
  <2> QED BY <2>1 DEF Numbered, Inside
<1>6. CASE FrameMoves
  <2>1. counts'.received = counts.received /\ (main'.pc \in Inside => main.pc \in Inside)
    BY <1>6 DEF FrameMoves, Success, Failure, TypeInv, TypeOK
  <2>2. \A r \in InLine' \cup Copying' : r <= counts.received
    BY <1>1, <1>2 DEF Numbered
  <2>3. ASSUME main'.pc \in Inside PROVE InLine' \cup Copying' \subseteq InLine \cup Copying
    BY <1>2, <1>3, <2>3 DEF At
  <2> QED BY <2>1, <2>2, <2>3 DEF Numbered
<1> QED BY <1>4, <1>5, <1>6 DEF UnitStep

LEMMA ApartKeeps ==
  ASSUME TypeInv, PlacesInv, Shift
  PROVE  Apart'
<1> USE DEF Apart
<1>1. Apart
  BY DEF PlacesInv
<1>2. ASSUME NEW r \in Results, Submitted(r) PROVE Apart'
  <2>1. counts.received \in Nat /\ main.pc \in Inside /\ r = counts.received
    BY <1>2 DEF Submitted, TypeInv, TypeOK, Inside, At
  <2>2. \A s \in InLine : s < r
    BY <2>1 DEF PlacesInv, Numbered
  <2>3. r \notin InLine
    BY <2>1, <2>2
  <2> QED BY <1>1, <1>2, <2>3 DEF Submitted, InLine
<1>3. ASSUME NEW r \in Todo, LeftPending(r) \/ Published(r) \/ FoundFull(r) PROVE Apart'
  BY <1>1, <1>3 DEF LeftPending, Published, FoundFull
<1>4. ASSUME NEW r \in Queued, Evicted(r) \/ Taken(r) PROVE Apart'
  BY <1>1, <1>4 DEF Evicted, Taken
<1>5. CASE Collected
  BY <1>1, <1>5 DEF Collected
<1>6. CASE GaveUp \/ Replaced
  BY <1>1, <1>6 DEF GaveUp, Replaced
<1>7. CASE Copied \/ Stayed
  BY <1>1, <1>7 DEF Copied, Stayed
<1> QED BY <1>2, <1>3, <1>4, <1>5, <1>6, <1>7 DEF Shift

LEMMA PlacesInitial == Init => PlacesInv
<1>1. ToSet(<<>>) = {} /\ IsInjective(<<>>)
  BY DEF ToSet, IsInjective
<1> QED
  BY <1>1 DEF Init, QueueInit, PlacesInv, Apart, Once, Handling, Numbered, InLine, Incoming, Pending, Todo, InHand,
    Queued, Done, Copying, NoResult

LEMMA PlacesKeep == TypeInv /\ PlacesInv /\ [Next]_vars => PlacesInv' /\ Shift
<1> SUFFICES ASSUME TypeInv, PlacesInv, [Next]_vars PROVE PlacesInv' /\ Shift
  OBVIOUS
<1>1. QueueStep /\ UnitStep
  BY NextQueues, NextMoves DEF TypeInv
<1>2. Shift /\ Once' /\ Handling'
  BY <1>1, QueueShifts
<1>3. Apart' /\ Numbered'
  BY <1>1, <1>2, ApartKeeps, NumbersKeep DEF PlacesInv
<1> QED BY <1>2, <1>3 DEF PlacesInv

-----------------------------------------------------------------------------
(***************************************************************************)
(* Order.  The copies are completed in the order of the frames, so that    *)
(* what has been copied is older than all that has not.                    *)
(***************************************************************************)
CopiesInv ==
  /\ \A i, j \in DOMAIN copying : i < j => copying[i] < copying[j]
  /\ \A r \in InLine \ Copying, c \in Copying : r < c
  /\ (InHand \cup Queued \cup Done) \cap Copying = {}

LEMMA CopiesKeep ==
  ASSUME TypeInv, PlacesInv, CopiesInv, Shift
  PROVE  CopiesInv'
<1>1. copying \in Seq(Results) /\ Results \subseteq Nat /\ DOMAIN copying = 1 .. Len(copying) /\ Len(copying) \in Nat
  BY QueueAssumption, LenProperties DEF TypeInv, TypeOK, QueueTypeOK
<1>2. ASSUME copying' = copying, InLine' \subseteq InLine,
             ((InHand \cup Queued \cup Done) \cap Copying = {})'
      PROVE  CopiesInv'
  BY <1>2 DEF CopiesInv, Copying
<1>3. ASSUME NEW r \in Results, Submitted(r) PROVE CopiesInv'
  <2>1. counts.received \in Nat /\ main.pc \in Inside /\ r = counts.received
    BY <1>3 DEF Submitted, TypeInv, TypeOK, Inside, At
  <2>2. \A s \in InLine \cup Copying : s < r
    BY <2>1 DEF PlacesInv, Numbered
  <2>3. r \notin InLine
    BY <2>1, <2>2
  <2>4. Copying' = Copying \cup {r} /\ InLine' = InLine \cup {r}
    <3>1. Copying' = Copying \cup {r}
      BY <1>1, <1>3, AppendElements DEF Submitted, Copying
    <3> QED BY <1>3, <3>1 DEF Submitted, InLine
  <2>5. (\A i, j \in DOMAIN copying : i < j => copying[i] < copying[j])'
    <3>1. /\ DOMAIN copying' = 1 .. Len(copying) + 1
          /\ \A i \in 1 .. Len(copying) : copying'[i] = copying[i]
          /\ copying'[Len(copying) + 1] = r
      <4>1. copying' \in Seq(Results) /\ Len(copying') = Len(copying) + 1
        BY <1>1, <1>3, AppendProperties DEF Submitted
      <4> QED BY <1>1, <1>3, <4>1, AppendProperties, LenProperties DEF Submitted
    <3>2. \A i \in 1 .. Len(copying) : copying[i] < r
      BY <1>1, <2>2 DEF Copying, ToSet
    <3> QED BY <1>1, <3>1, <3>2 DEF CopiesInv
  <2>6. \A s \in InLine' \ Copying', c \in Copying' : s < c
    BY <2>2, <2>4 DEF CopiesInv
  <2>7. ((InHand \cup Queued \cup Done) \cap Copying = {})'
    BY <1>3, <2>3, <2>4 DEF Submitted, CopiesInv, InLine
  <2> QED BY <2>5, <2>6, <2>7 DEF CopiesInv
<1>4. CASE Copied
  <2>1. /\ Copying = Copying' \cup {Head(copying)} /\ copying' \in Seq(Results) /\ copying # <<>>
        /\ Len(copying') = Len(copying) - 1
    BY <1>1, <1>4, TailElements DEF Copied, Copying
  <2>2. /\ DOMAIN copying' = 1 .. Len(copying) - 1 /\ Head(copying) = copying[1] /\ Len(copying) >= 1
        /\ \A i \in 1 .. Len(copying) - 1 : copying'[i] = copying[i + 1]
    BY <1>1, <1>4, <2>1, HeadTailProperties, LenProperties DEF Copied
  <2>3. \A c \in Copying' : Head(copying) < c
    <3>1. ASSUME NEW i \in 1 .. Len(copying) - 1 PROVE copying[1] < copying'[i]
      BY <1>1, <2>2, <3>1 DEF CopiesInv
    <3> QED BY <2>2, <3>1 DEF Copying, ToSet
  <2>4. (\A i, j \in DOMAIN copying : i < j => copying[i] < copying[j])'
    BY <1>1, <2>2 DEF CopiesInv
  <2>5. InLine' = InLine /\ (InHand \cup Queued \cup Done)' = InHand \cup Queued \cup Done
    BY <1>4 DEF Copied, InLine
  <2>6. \A r \in InLine' \ Copying', c \in Copying' : r < c
    BY <2>1, <2>3, <2>5 DEF CopiesInv
  <2>7. ((InHand \cup Queued \cup Done) \cap Copying = {})'
    BY <2>1, <2>5 DEF CopiesInv
  <2> QED BY <2>4, <2>6, <2>7 DEF CopiesInv
<1>5. ASSUME NEW r \in Todo, LeftPending(r) \/ Published(r) \/ FoundFull(r) PROVE CopiesInv'
  BY <1>2, <1>5 DEF LeftPending, Published, FoundFull, InLine, Copying, CopiesInv
<1>6. ASSUME NEW r \in Queued, Evicted(r) \/ Taken(r) PROVE CopiesInv'
  BY <1>2, <1>6 DEF Evicted, Taken, InLine, Copying, CopiesInv
<1>7. CASE Collected \/ GaveUp \/ Replaced \/ Stayed
  BY <1>2, <1>7 DEF Collected, GaveUp, Replaced, Stayed, InLine, Copying, CopiesInv
<1> QED BY <1>3, <1>4, <1>5, <1>6, <1>7 DEF Shift

\* A result that a later one has overtaken is ready to be published.
THEOREM OvertakingCorrect == Spec => []OvertakenIsReady
<1>1. Init => CopiesInv
  <2>1. ToSet(<<>>) = {}
    BY DEF ToSet
  <2> QED BY <2>1 DEF Init, QueueInit, CopiesInv, Copying
<1>2. TypeInv /\ PlacesInv /\ CopiesInv /\ [Next]_vars => CopiesInv'
  BY PlacesKeep, CopiesKeep
<1>3. TypeInv /\ CopiesInv => OvertakenIsReady
  <2> SUFFICES ASSUME TypeInv, CopiesInv, NEW r \in Pending, NEW s \in ToSet(consumed \o cpuQueue), s > r,
                      r \in Copying
               PROVE  FALSE
    BY DEF OvertakenIsReady, Pending, Ready, Copying
  <2>1. consumed \in Seq(Results) /\ cpuQueue \in Seq(Results) /\ copying \in Seq(Results) /\ Results \subseteq Nat
    BY QueueAssumption DEF TypeInv, TypeOK, QueueTypeOK
  <2>2. s \in Queued \cup Done
    BY <2>1, ConcatElements DEF Queued, Done
  <2>3. s < r
    BY <2>2 DEF CopiesInv, InLine
  <2>4. s \in Nat /\ r \in Nat
    BY <2>1, <2>2, Elements DEF Queued, Done, Copying
  <2> QED BY <2>3, <2>4
<1> QED BY TypeInvariant, TypeInitial, PlacesInitial, PlacesKeep, <1>1, <1>2, <1>3, PTL DEF Spec

-----------------------------------------------------------------------------
(***************************************************************************)
(* Delivery.  Here the order in the queue counts, so that the steps are    *)
(* taken as they are, and not as moves between sets.                       *)
(***************************************************************************)

\* Each step of the queue is a step of Delivery, or none.
LEMMA StepDelivers ==
  ASSUME TypeInv, PlacesInv, QueueStep
  PROVE  Promise!Next \/ UNCHANGED <<Unqueued, Excess, Queue, consumed>>
<1>1. /\ copying \in Seq(Results) /\ incoming \in Seq(Results) /\ pending \in Seq(Results)
      /\ todo \in Seq(Results) /\ cpuQueue \in Seq(Results) /\ consumed \in Seq(Results)
      /\ Len(cpuQueue) <= QueueSize /\ Len(cpuQueue) \in Nat /\ QueueSize \in Nat /\ NoResult \notin Results
      /\ publisher \in PublisherType
  BY QueueAssumption, LenProperties DEF TypeInv, TypeOK, QueueTypeOK, PublisherType, NoResult
<1>2. /\ publisher.pc \in {"evicting", "replacing"} => publisher.result \in Results
      /\ At("submitting") => counts.received \in Results
  BY DEF TypeInv, Putting, UnderWay, At
<1>3. Unqueued = Incoming \cup Pending \cup Todo /\ Unqueued' = (Incoming \cup Pending \cup Todo)'
  BY DEF Unqueued, Incoming, Pending, Todo
<1>4. ToSet(<<>>) = {}
  BY DEF ToSet
<1>5. CASE At("submitting") /\ Submit(counts.received)
  <2> DEFINE r == counts.received
  <2>1. Incoming' = Incoming \cup {r}
    BY <1>1, <1>2, <1>5, AppendElements DEF Submit, Incoming
  <2>2. UNCHANGED <<Pending, Todo, Excess, Queue, consumed>>
    <3>1. /\ publisher'.result = publisher.result
          /\ publisher'.pc = publisher.pc \/ (publisher.pc = "none" /\ publisher'.pc = "scanning")
      BY <1>1, <1>5 DEF Submit, PublisherType
    <3> QED BY <1>5, <3>1 DEF Submit, Pending, Todo, Excess, Queue
  <2>3. Promise!Known \subseteq InLine
    <3>1. CASE publisher.pc = "replacing"
      <4>1. ToSet(Queue) = Queued \cup {publisher.result} /\ Excess = {}
        BY <1>1, <1>2, <3>1, AppendElements DEF Queue, Excess, Queued
      <4>2. publisher.result \in InHand
        BY <1>1, <1>2, <3>1 DEF InHand
      <4> QED BY <1>3, <4>1, <4>2 DEF Promise!Known, Promise!ToSet, ToSet, InLine, Done
    <3>2. CASE publisher.pc # "replacing"
      <4>1. Queue = cpuQueue /\ Excess \subseteq InHand
        BY <1>1, <1>2, <3>2 DEF Queue, Excess, InHand
      <4> QED BY <1>3, <4>1 DEF Promise!Known, Promise!ToSet, ToSet, InLine, Queued, Done
    <3> QED BY <3>1, <3>2
  <2>4. \A s \in Promise!Known : s < r
    <3>1. main.pc \in Inside
      BY <1>5 DEF At, Inside
    <3> QED BY <2>3, <3>1 DEF PlacesInv, Numbered
  <2>5. Promise!Submit(r)
    BY <1>3, <2>1, <2>2, <2>4 DEF Promise!Submit
  <2> QED BY <1>2, <1>5, <2>5 DEF Promise!Next
<1>6. CASE Collect
  <2>1. Todo' = Incoming \cup Pending /\ Incoming' = {} /\ Pending' = {}
    BY <1>1, <1>4, <1>6, ConcatElements DEF Collect, Incoming, Pending, Todo
  <2>2. Todo = {}
    BY <1>4, <1>6 DEF Collect, PlacesInv, Handling, Todo
  <2>3. UNCHANGED <<Excess, Queue, consumed>>
    BY <1>1, <1>6 DEF Collect, PublisherType, Excess, Queue
  <2> QED BY <1>3, <2>1, <2>2, <2>3
<1>7. CASE LeavePending
  <2>1. Todo = Todo' \cup {Head(todo)} /\ Pending' = Pending \cup {Head(todo)}
    BY <1>1, <1>7, TailElements, AppendElements DEF LeavePending, Pending, Todo
  <2>2. UNCHANGED <<Incoming, Excess, Queue, consumed>>
    BY <1>7 DEF LeavePending, Incoming, Excess, Queue
  <2> QED BY <1>3, <2>1, <2>2
<1>8. CASE Publish
  <2> DEFINE r == Head(todo)
  <2>1. /\ r \in Todo /\ Todo' = Todo \ {r}
        /\ Excess = {} /\ Queue = cpuQueue
        /\ UNCHANGED <<Incoming, Pending, consumed>>
    BY <1>1, <1>8, TailElements DEF Publish, Todo, Incoming, Pending, Excess, Queue, PlacesInv, Once
  <2>2. r \in Unqueued /\ Unqueued' = Unqueued \ {r}
    BY <1>3, <2>1 DEF PlacesInv, Apart
  <2>3. CASE Len(cpuQueue) < QueueSize
    <3>1. Excess' = {} /\ Queue' = Append(Queue, r)
      BY <1>8, <2>1, <2>3 DEF Publish, Excess, Queue
    <3>2. Promise!Enter(r)
      BY <2>1, <2>2, <2>3, <3>1 DEF Promise!Enter
    <3> QED BY <2>2, <3>2 DEF Promise!Next
  <2>4. CASE ~(Len(cpuQueue) < QueueSize)
    <3>1. Excess' = {r} /\ Queue' = Queue
      BY <1>8, <2>1, <2>4 DEF Publish, Excess, Queue
    <3>2. Len(Queue) = QueueSize
      BY <1>1, <2>1, <2>4
    <3>3. Promise!FindFull(r)
      BY <2>1, <2>2, <3>1, <3>2 DEF Promise!FindFull
    <3> QED BY <2>2, <3>3 DEF Promise!Next
  <2> QED BY <2>3, <2>4
<1>9. CASE Evict
  <2>1. /\ Excess = {publisher.result} /\ Queue = cpuQueue
        /\ UNCHANGED <<Unqueued, consumed>>
    BY <1>3, <1>9 DEF Evict, Excess, Queue, Incoming, Pending, Todo
  <2>2. CASE cpuQueue = <<>>
    <3>1. Excess' = {} /\ Queue' = Queue
      BY <1>9, <2>1, <2>2 DEF Evict, Excess, Queue
    <3> QED BY <2>1, <2>2, <3>1 DEF Promise!Next, Promise!DropNewest
  <2>3. CASE cpuQueue # <<>>
    <3>1. publisher'.pc = "replacing" /\ publisher'.result = publisher.result /\ cpuQueue' = Tail(cpuQueue)
      BY <1>1, <1>9, <2>3 DEF Evict, PublisherType
    <3>2. Excess' = {} /\ Queue' = Append(Tail(Queue), publisher.result)
      BY <2>1, <3>1 DEF Excess, Queue
    <3> QED BY <2>1, <2>3, <3>2 DEF Promise!Next, Promise!DropOldest
  <2> QED BY <2>2, <2>3
<1>10. CASE Replace
  BY <1>3, <1>10 DEF Replace, Excess, Queue, Incoming, Pending, Todo
<1>11. CASE GetResult
  <2>1. UNCHANGED <<Unqueued, Excess>>
    BY <1>3, <1>11 DEF GetResult, Excess, Incoming, Pending, Todo
  <2>2. Queue # <<>> /\ Queue' = Tail(Queue) /\ Head(cpuQueue) = Head(Queue)
    <3>1. CASE publisher.pc = "replacing"
      <4>1. cpuQueue # <<>> /\ cpuQueue' = Tail(cpuQueue) /\ publisher' = publisher
        BY <1>11 DEF GetResult
      <4>2. Queue = Append(cpuQueue, publisher.result) /\ Queue' = Append(Tail(cpuQueue), publisher.result)
        BY <3>1, <4>1 DEF Queue
      <4>3. publisher.result \in Results
        BY <1>2, <3>1
      <4>4. /\ Head(Queue) = Head(cpuQueue)
            /\ Tail(Queue) = Append(Tail(cpuQueue), publisher.result)
        BY <1>1, <4>1, <4>2, HeadTailAppend
      <4>5. Queue # <<>>
        BY <1>1, <4>2, <4>3, AppendProperties
      <4> QED BY <4>2, <4>4, <4>5
    <3>2. CASE publisher.pc # "replacing"
      BY <1>11, <3>2 DEF GetResult, Queue
    <3> QED BY <3>1, <3>2
  <2>3. consumed' = Append(consumed, Head(Queue))
    BY <1>11, <2>2 DEF GetResult
  <2> QED BY <2>1, <2>2, <2>3 DEF Promise!Next, Promise!Deliver
<1>12. CASE ScanEnds
  <2>1. publisher.pc = "scanning" /\ publisher'.pc \in {"ended", "waiting"}
    BY <1>1, <1>12 DEF ScanEnds, PublisherType
  <2> QED BY <1>3, <1>12, <2>1 DEF ScanEnds, Excess, Queue, Incoming, Pending, Todo
<1>13. CASE CopyCompletes \/ ConsumerTop \/ CallEnds \/ ConsumerMoves \/ StopIsSet \/ UNCHANGED queueVars
  <2>1. UNCHANGED <<incoming, pending, todo, cpuQueue, publisher, consumed>>
    BY <1>13 DEF CopyCompletes, ConsumerTop, CallEnds, ConsumerMoves, StopIsSet, queueVars
  <2> QED BY <1>3, <2>1 DEF Excess, Queue, Incoming, Pending, Todo
<1> QED
  BY <1>5, <1>6, <1>7, <1>8, <1>9, <1>10, <1>11, <1>12, <1>13 DEF QueueStep, PublisherStep, ConsumerStep

\* The queue implements Delivery: a result is handed over at most once and in the order
\* of the queue, and none is lost but in the one way _put_latest (infer_queue.py:97) has:
\* the oldest makes room, or the newest if the consumer was quicker.
THEOREM DeliveryRefined == Spec => ImplementsDelivery
<1>1. Init => Promise!Init
  <2>1. ToSet(<<>>) = {}
    BY DEF ToSet
  <2> QED BY <2>1 DEF Init, QueueInit, Promise!Init, Unqueued, Excess, Queue
<1>2. TypeInv /\ PlacesInv /\ [Next]_vars => [Promise!Next]_<<Unqueued, Excess, Queue, consumed>>
  BY NextQueues, StepDelivers DEF TypeInv
<1> QED
  BY TypeInvariant, TypeInitial, PlacesInitial, PlacesKeep, <1>1, <1>2, PTL DEF Spec, ImplementsDelivery, Promise!Spec

=============================================================================
