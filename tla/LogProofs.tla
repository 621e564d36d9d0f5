------------------------------ MODULE LogProofs ------------------------------
(***************************************************************************)
(* Theorems about LogFeed, for every size of the queues and every number   *)
(* of logs, connections and sessions: no log is published twice, none is   *)
(* lost without a reason, and every session is sent the newest of what was *)
(* published, in order and without a gap.                                  *)
(***************************************************************************)
EXTENDS LogFeed, SequenceLemmas, TLAPS

-----------------------------------------------------------------------------
(***************************************************************************)
(* Where a log is.  That none is published twice is not inductive: it      *)
(* takes that each log is in one place at a time, and there once, and that *)
(* a log which _sendLogs is putting back still counts as its own.          *)
(***************************************************************************)
Numbers == Nat \ {0}

LogTypeOK ==
  /\ created \in 0 .. MaxLogs
  /\ logs \in Seq(Numbers)
  /\ wire \in Seq(Numbers)
  /\ published \in Seq(Numbers)
  /\ evicting \in {NoPut} \cup [by : {"emitter", "sender"}, log : Numbers]
  /\ sender \in [pc : SenderStates, log : Nat, conn : Nat]
  /\ links \in Nat /\ current \in Nat

\* The sender has a log between taking it and sending it or putting it back, and it is
\* that log it puts back.
SenderHolds ==
  /\ sender.pc \in {"holding", "sending", "returning"} <=> sender.log # 0
  /\ evicting.by = "sender" => SenderAt("returning") /\ evicting.log = sender.log

InLogs == ToSet(logs)
InPut == {evicting.log} \ {0}
InSender == IF SenderAt("returning") /\ evicting.by = "sender" THEN {} ELSE {sender.log} \ {0}
OnWire == ToSet(wire)
Out == ToSet(published)

Known == InLogs \cup InPut \cup InSender \cup OnWire \cup Out \subseteq 1 .. created

Apart ==
  /\ InLogs \cap (InPut \cup InSender \cup OnWire \cup Out) = {}
  /\ InPut \cap (InSender \cup OnWire \cup Out) = {}
  /\ InSender \cap (OnWire \cup Out) = {}
  /\ OnWire \cap Out = {}

Once == IsInjective(logs) /\ IsInjective(wire) /\ IsInjective(published)

LogInv == LogTypeOK /\ SenderHolds /\ Known /\ Apart /\ Once

(***************************************************************************)
(* What a step may do to the places.                                       *)
(***************************************************************************)
MovesNew ==
  /\ created' = created + 1
  /\ \/ InLogs' = InLogs \cup {created + 1} /\ InPut' = InPut
     \/ InLogs' = InLogs /\ InPut = {} /\ InPut' = {created + 1}
  /\ InSender' = InSender /\ OnWire' = OnWire /\ Out' = Out

MovesPut ==
  /\ InLogs' \subseteq InLogs \cup InPut /\ InPut \subseteq InLogs' /\ InPut' = {}
  /\ \A n \in InLogs \ InLogs' : MakesRoom(n)
  /\ InSender' = InSender /\ OnWire' = OnWire /\ Out' = Out

MovesTaken ==
  /\ \E n \in InLogs : InLogs' = InLogs \ {n} /\ InSender = {} /\ InSender' = {n}
  /\ InPut' = InPut /\ OnWire' = OnWire /\ Out' = Out

MovesSent ==
  /\ OnWire' = OnWire \cup InSender /\ InSender' = {}
  /\ InLogs' = InLogs /\ InPut' = InPut /\ Out' = Out

MovesBack ==
  /\ \/ InLogs' = InLogs \cup InSender /\ InPut' = InPut
     \/ InLogs' = InLogs /\ InPut = {} /\ InPut' = InSender
  /\ InSender' = {}
  /\ OnWire' = OnWire /\ Out' = Out

MovesOut ==
  /\ \E n \in OnWire : OnWire' = OnWire \ {n} /\ Out' = Out \cup {n}
  /\ InLogs' = InLogs /\ InPut' = InPut /\ InSender' = InSender

MovesNowhere ==
  /\ OnWire' = OnWire \/ (OnWire' = {} /\ reading' # reading)
  /\ InLogs' = InLogs /\ InPut' = InPut /\ InSender' = InSender /\ Out' = Out

Moves ==
  \/ MovesNew
  \/ created' = created /\ (MovesPut \/ MovesTaken \/ MovesSent \/ MovesBack \/ MovesOut \/ MovesNowhere)

LEMMA LogInitial == Init => LogInv
<1>1. ToSet(<<>>) = {} /\ IsInjective(<<>>) /\ <<>> \in Seq(Numbers)
  BY EmptySeq DEF ToSet, IsInjective
<1> QED
  BY <1>1, RelayAssumption DEF Init, RelayInit, LogInv, LogTypeOK, SenderHolds, Known, Apart, Once,
    NoPut, IdleSender, SenderStates, InLogs, InPut, InSender, OnWire, Out, Numbers, SenderAt

LEMMA EmitMoves ==
  ASSUME LogInv, Emit, UNCHANGED feedVars
  PROVE  LogTypeOK' /\ SenderHolds' /\ Once' /\ Moves
<1>1. /\ created' = created + 1 /\ created + 1 \in Numbers /\ created' \in 0 .. MaxLogs /\ evicting = NoPut
      /\ sender' = sender /\ wire' = wire /\ published' = published /\ links' = links /\ current' = current
  BY RelayAssumption DEF Emit, LogInv, LogTypeOK, Numbers, PutLog, linkVars, feedVars
<1>2. created + 1 \notin InLogs
  BY DEF LogInv, Known, LogTypeOK
<1>3. CASE QueueFull
  <2>1. evicting' = [by |-> "emitter", log |-> created + 1] /\ logs' = logs
    BY <1>1, <1>3 DEF Emit, PutLog
  <2>2. InPut = {} /\ InPut' = {created + 1} /\ InLogs' = InLogs /\ InSender' = InSender /\ OnWire' = OnWire /\ Out' = Out
    BY <1>1, <2>1 DEF InLogs, InPut, InSender, OnWire, Out, NoPut, Numbers, SenderAt
  <2>3. LogTypeOK' /\ SenderHolds' /\ Once'
    BY <1>1, <2>1 DEF LogInv, LogTypeOK, SenderHolds, Once, NoPut, SenderAt
  <2> QED BY <1>1, <2>2, <2>3 DEF Moves, MovesNew
<1>4. CASE ~QueueFull
  <2>1. logs' = Append(logs, created + 1) /\ evicting' = evicting
    BY <1>1, <1>4 DEF Emit, PutLog
  <2>2. /\ logs \in Seq(Numbers) /\ logs' \in Seq(Numbers)
        /\ InLogs' = InLogs \cup {created + 1} /\ IsInjective(logs')
    BY <1>1, <1>2, <2>1, AppendElements, AppendProperties DEF LogInv, LogTypeOK, Once, InLogs
  <2>3. InPut' = InPut /\ InSender' = InSender /\ OnWire' = OnWire /\ Out' = Out
    BY <1>1, <2>1 DEF InPut, InSender, OnWire, Out, SenderAt
  <2>4. LogTypeOK' /\ SenderHolds' /\ Once'
    BY <1>1, <2>1, <2>2 DEF LogInv, LogTypeOK, SenderHolds, Once, SenderAt
  <2> QED BY <1>1, <2>2, <2>3, <2>4 DEF Moves, MovesNew
<1> QED BY <1>3, <1>4

\* What put() leaves in a queue that was full.
LEMMA Evicted ==
  ASSUME LogInv, EvictOldest, evicting # NoPut
  PROVE  /\ logs' \in Seq(Numbers) /\ IsInjective(logs')
         /\ InLogs' \subseteq InLogs \cup InPut /\ InPut \subseteq InLogs' /\ InPut' = {} /\ evicting' = NoPut
         /\ \A n \in InLogs \ InLogs' : MakesRoom(n)
<1> DEFINE rest == IF logs = <<>> THEN logs ELSE Tail(logs)
<1>1. evicting.log \in Numbers /\ InPut = {evicting.log} /\ logs \in Seq(Numbers) /\ evicting.log \notin InLogs
  BY DEF LogInv, LogTypeOK, InPut, Numbers, Apart
<1>2. /\ rest \in Seq(Numbers) /\ ToSet(rest) \subseteq InLogs /\ IsInjective(rest)
      /\ \A n \in InLogs \ ToSet(rest) : logs # <<>> /\ n = Head(logs)
  BY <1>1, TailElements DEF LogInv, Once, InLogs
<1>3. logs' = Append(rest, evicting.log) /\ evicting' = NoPut
  BY DEF EvictOldest
<1> HIDE DEF rest
<1>4. logs' \in Seq(Numbers) /\ IsInjective(logs') /\ ToSet(logs') = ToSet(rest) \cup {evicting.log}
  BY <1>1, <1>2, <1>3, AppendElements, AppendProperties
<1> QED
  BY <1>1, <1>2, <1>3, <1>4 DEF InLogs, InPut, NoPut, MakesRoom

LEMMA EmitEvictsMoves ==
  ASSUME LogInv, EmitEvicts, UNCHANGED feedVars
  PROVE  LogTypeOK' /\ SenderHolds' /\ Once' /\ Moves
<1>1. /\ evicting # NoPut /\ evicting.by # "sender" /\ created' = created
      /\ sender' = sender /\ wire' = wire /\ published' = published /\ links' = links /\ current' = current
  BY DEF EmitEvicts, NoPut, linkVars, feedVars
<1>2. /\ logs' \in Seq(Numbers) /\ IsInjective(logs')
      /\ InLogs' \subseteq InLogs \cup InPut /\ InPut \subseteq InLogs' /\ InPut' = {} /\ evicting' = NoPut
      /\ \A n \in InLogs \ InLogs' : MakesRoom(n)
  BY <1>1, Evicted DEF EmitEvicts
<1>3. InSender' = InSender /\ OnWire' = OnWire /\ Out' = Out
  BY <1>1, <1>2 DEF InSender, OnWire, Out, NoPut, SenderAt
<1>4. LogTypeOK' /\ SenderHolds' /\ Once'
  BY <1>1, <1>2 DEF LogInv, LogTypeOK, SenderHolds, Once, NoPut, SenderAt
<1> QED BY <1>1, <1>2, <1>3, <1>4 DEF Moves, MovesPut

LEMMA TakeMoves ==
  ASSUME LogInv, TakeLog, UNCHANGED feedVars
  PROVE  LogTypeOK' /\ SenderHolds' /\ Once' /\ Moves
<1> DEFINE n == Head(logs)
<1>1. /\ logs # <<>> /\ logs' = Tail(logs) /\ created' = created /\ evicting' = evicting
      /\ sender' = [pc |-> "holding", log |-> n, conn |-> 0] /\ sender.pc = "getting"
      /\ wire' = wire /\ published' = published /\ links' = links /\ current' = current
  BY DEF TakeLog, linkVars, feedVars, SenderAt
<1>2. /\ n \in Numbers /\ logs' \in Seq(Numbers) /\ IsInjective(logs')
      /\ n \in InLogs /\ InLogs' = InLogs \ {n}
  BY <1>1, TailElements DEF LogInv, LogTypeOK, Once, InLogs
<1> HIDE DEF n
<1>3. evicting.by # "sender" /\ sender.log = 0
  BY <1>1 DEF LogInv, SenderHolds, SenderAt
<1>4. InSender = {} /\ InSender' = {n} /\ InPut' = InPut /\ OnWire' = OnWire /\ Out' = Out
  BY <1>1, <1>2, <1>3 DEF InSender, InPut, OnWire, Out, SenderAt, Numbers
<1>5. LogTypeOK' /\ SenderHolds' /\ Once'
  BY <1>1, <1>2, <1>3 DEF LogInv, LogTypeOK, SenderHolds, Once, SenderAt, SenderStates, Numbers
<1> QED BY <1>1, <1>2, <1>4, <1>5 DEF Moves, MovesTaken

LEMMA SendMoves ==
  ASSUME LogInv, SendLog, UNCHANGED feedVars
  PROVE  LogTypeOK' /\ SenderHolds' /\ Once' /\ Moves
<1> DEFINE n == sender.log
<1>1. /\ sender.pc = "sending" /\ wire' = Append(wire, n) /\ sender' = IdleSender
      /\ logs' = logs /\ created' = created /\ evicting' = evicting
      /\ published' = published /\ links' = links /\ current' = current
  BY DEF SendLog, queueVars, linkVars, feedVars, SenderAt
<1>2. evicting.by # "sender" /\ n \in Numbers /\ InSender = {n}
  BY <1>1 DEF LogInv, LogTypeOK, SenderHolds, SenderAt, InSender, Numbers
<1>3. n \notin OnWire
  BY <1>2 DEF LogInv, Apart
<1>4. wire' \in Seq(Numbers) /\ IsInjective(wire') /\ OnWire' = OnWire \cup {n}
  BY <1>1, <1>2, <1>3, AppendElements, AppendProperties DEF LogInv, LogTypeOK, Once, OnWire
<1>5. InSender' = {} /\ InPut' = InPut /\ InLogs' = InLogs /\ Out' = Out
  BY <1>1 DEF InSender, InPut, InLogs, Out, SenderAt, IdleSender
<1>6. LogTypeOK' /\ SenderHolds' /\ Once'
  BY <1>1, <1>2, <1>4 DEF LogInv, LogTypeOK, SenderHolds, Once, SenderAt, SenderStates, IdleSender
<1> QED BY <1>1, <1>2, <1>4, <1>5, <1>6 DEF Moves, MovesSent

LEMMA ReturnedIs ==
  ASSUME LogTypeOK
  PROVE  Returned \in [pc : SenderStates, log : Nat, conn : Nat] /\ Returned.log = 0 /\ Returned.pc \in {"waiting", "clearing"}
BY DEF Returned, LogTypeOK, SenderStates

LEMMA PutBackMoves ==
  ASSUME LogInv, PutBack, UNCHANGED feedVars
  PROVE  LogTypeOK' /\ SenderHolds' /\ Once' /\ Moves
<1> DEFINE n == sender.log
<1>1. /\ sender.pc = "returning" /\ evicting = NoPut /\ created' = created /\ wire' = wire
      /\ published' = published /\ links' = links /\ current' = current
  BY DEF PutBack, PutLog, linkVars, feedVars, SenderAt
<1>2. n \in Numbers /\ InSender = {n} /\ InPut = {}
  BY <1>1 DEF LogInv, LogTypeOK, SenderHolds, SenderAt, InSender, InPut, Numbers, NoPut
<1>3. OnWire' = OnWire /\ Out' = Out
  BY <1>1 DEF OnWire, Out
<1>4. CASE QueueFull
  <2>1. evicting' = [by |-> "sender", log |-> n] /\ logs' = logs /\ sender' = sender
    BY <1>4 DEF PutBack, PutLog
  <2>2. InPut' = {n} /\ InLogs' = InLogs /\ InSender' = {}
    BY <1>1, <1>2, <2>1 DEF InLogs, InPut, InSender, Numbers, SenderAt
  <2>3. LogTypeOK' /\ SenderHolds' /\ Once'
    BY <1>1, <1>2, <2>1 DEF LogInv, LogTypeOK, SenderHolds, Once, SenderAt
  <2> QED BY <1>1, <1>2, <1>3, <2>2, <2>3 DEF Moves, MovesBack
<1>5. CASE ~QueueFull
  <2>1. logs' = Append(logs, n) /\ evicting' = evicting /\ sender' = Returned
    BY <1>5 DEF PutBack, PutLog
  <2>2. n \notin InLogs
    BY <1>2 DEF LogInv, Apart
  <2>3. logs' \in Seq(Numbers) /\ IsInjective(logs') /\ InLogs' = InLogs \cup {n}
    BY <1>2, <2>1, <2>2, AppendElements, AppendProperties DEF LogInv, LogTypeOK, Once, InLogs
  <2>4. sender'.log = 0 /\ sender' \in [pc : SenderStates, log : Nat, conn : Nat] /\ sender'.pc \in {"waiting", "clearing"}
    BY <2>1, ReturnedIs DEF LogInv
  <2>5. InPut' = InPut /\ InSender' = {}
    BY <2>1, <2>4 DEF InPut, InSender, SenderAt
  <2>6. LogTypeOK' /\ SenderHolds' /\ Once'
    BY <1>1, <2>1, <2>3, <2>4 DEF LogInv, LogTypeOK, SenderHolds, Once, SenderAt, NoPut
  <2> QED BY <1>1, <1>2, <1>3, <2>3, <2>5, <2>6 DEF Moves, MovesBack
<1> QED BY <1>4, <1>5

LEMMA PutBackEvictsMoves ==
  ASSUME LogInv, PutBackEvicts, UNCHANGED feedVars
  PROVE  LogTypeOK' /\ SenderHolds' /\ Once' /\ Moves
<1>1. /\ evicting # NoPut /\ evicting.by = "sender" /\ sender.pc = "returning" /\ created' = created /\ sender' = Returned
      /\ wire' = wire /\ published' = published /\ links' = links /\ current' = current
  BY DEF PutBackEvicts, NoPut, linkVars, feedVars, LogInv, SenderHolds, SenderAt
<1>2. /\ logs' \in Seq(Numbers) /\ IsInjective(logs')
      /\ InLogs' \subseteq InLogs \cup InPut /\ InPut \subseteq InLogs' /\ InPut' = {} /\ evicting' = NoPut
      /\ \A n \in InLogs \ InLogs' : MakesRoom(n)
  BY <1>1, Evicted DEF PutBackEvicts
<1>3. sender'.log = 0 /\ sender' \in [pc : SenderStates, log : Nat, conn : Nat] /\ sender'.pc \in {"waiting", "clearing"}
  BY <1>1, ReturnedIs DEF LogInv
<1>4. InSender = {} /\ InSender' = {} /\ OnWire' = OnWire /\ Out' = Out
  BY <1>1, <1>3 DEF InSender, OnWire, Out, SenderAt
<1>5. LogTypeOK' /\ SenderHolds' /\ Once'
  BY <1>1, <1>2, <1>3 DEF LogInv, LogTypeOK, SenderHolds, Once, NoPut, SenderAt
<1> QED BY <1>1, <1>2, <1>4, <1>5 DEF Moves, MovesPut

\* The sender moves on, and the connections come and go: no log does.
LEMMA QuietMoves ==
  ASSUME LogInv, UNCHANGED <<queueVars, wire, published>>,
         \/ sender' = sender
         \/ sender'.log = sender.log /\ (sender'.pc = sender.pc \/ evicting.by # "sender")
         \/ sender' = IdleSender /\ sender.pc = "clearing",
         sender' \in [pc : SenderStates, log : Nat, conn : Nat],
         sender'.pc \in {"holding", "sending", "returning"} <=> sender'.log # 0,
         links' \in Nat, current' \in Nat
  PROVE  LogTypeOK' /\ SenderHolds' /\ Once' /\ Moves
<1>1. created' = created /\ logs' = logs /\ evicting' = evicting /\ wire' = wire /\ published' = published
  BY DEF queueVars
<1>2. sender'.log = sender.log
  BY DEF LogInv, SenderHolds, IdleSender
<1>3. evicting.by = "sender" => sender'.pc = sender.pc
  BY DEF LogInv, SenderHolds, SenderAt
<1>4. InLogs' = InLogs /\ InPut' = InPut /\ InSender' = InSender /\ OnWire' = OnWire /\ Out' = Out
  BY <1>1, <1>2, <1>3 DEF InLogs, InPut, InSender, OnWire, Out, SenderAt
<1>5. LogTypeOK' /\ SenderHolds' /\ Once'
  BY <1>1, <1>2, <1>3 DEF LogInv, LogTypeOK, SenderHolds, Once, SenderAt
<1> QED BY <1>1, <1>4, <1>5 DEF Moves, MovesNowhere

LEMMA RelayMoves ==
  ASSUME LogInv, RelayStep, UNCHANGED feedVars
  PROVE  LogTypeOK' /\ SenderHolds' /\ Once' /\ Moves
<1>1. published' = published
  BY DEF feedVars
<1>2. sender \in [pc : SenderStates, log : Nat, conn : Nat] /\ links \in Nat /\ current \in Nat
  BY DEF LogInv, LogTypeOK
<1>3. /\ sender.pc \in {"holding", "sending", "returning"} <=> sender.log # 0
      /\ evicting.by = "sender" => sender.pc = "returning"
  BY DEF LogInv, SenderHolds, SenderAt
<1>4. CASE SenderEnds \/ SenderReady \/ TakeTimesOut \/ LookUp \/ SendFails
  <2>1. UNCHANGED <<queueVars, linkVars, wire>>
    BY <1>4 DEF SenderEnds, SenderReady, TakeTimesOut, LookUp, SendFails
  <2>2. sender'.log = sender.log /\ sender' \in [pc : SenderStates, log : Nat, conn : Nat]
    BY <1>2, <1>4 DEF SenderEnds, SenderReady, TakeTimesOut, LookUp, SendFails, SenderGoes, SenderStates
  <2>3. sender.pc # "returning" /\ (sender'.pc \in {"holding", "sending", "returning"} <=> sender.log # 0)
    BY <1>2, <1>3, <1>4 DEF SenderEnds, SenderReady, TakeTimesOut, LookUp, SendFails, SenderGoes, SenderAt
  <2>4. links' = links /\ current' = current
    BY <2>1 DEF linkVars
  <2> QED BY <1>1, <1>2, <1>3, <2>1, <2>2, <2>3, <2>4, QuietMoves
<1>5. CASE SenderClears
  <2>1. sender' = IdleSender /\ sender.pc = "clearing" /\ UNCHANGED <<queueVars, wire>> /\ links' = links /\ current' \in {0, current}
    BY <1>5 DEF SenderClears, Cleared, SenderAt
  <2>2. sender' \in [pc : SenderStates, log : Nat, conn : Nat] /\ sender'.log = 0 /\ sender'.pc = "waiting"
    BY <2>1 DEF IdleSender, SenderStates
  <2> QED BY <1>1, <1>2, <2>1, <2>2, QuietMoves
<1>6. CASE Connected \/ ReadsEnd \/ StopReceived \/ HeartbeatClears
  <2>1. sender' = sender /\ UNCHANGED <<queueVars, wire>> /\ links' \in {links, links + 1} /\ current' \in {0, current, links + 1}
    BY <1>6 DEF Connected, ReadsEnd, StopReceived, HeartbeatClears, Cleared
  <2> QED BY <1>1, <1>2, <1>3, <2>1, QuietMoves
<1> QED
  BY <1>4, <1>5, <1>6, EmitMoves, EmitEvictsMoves, TakeMoves, SendMoves, PutBackMoves, PutBackEvictsMoves DEF RelayStep, SenderStep

LEMMA ReceiveMoves ==
  ASSUME LogInv, ReceiveLog
  PROVE  LogTypeOK' /\ SenderHolds' /\ Once' /\ Moves
<1> DEFINE n == Head(wire)
<1>1. /\ wire # <<>> /\ wire' = Tail(wire) /\ published' = Append(published, n)
      /\ created' = created /\ logs' = logs /\ evicting' = evicting /\ sender' = sender /\ links' = links /\ current' = current
  BY DEF ReceiveLog, queueVars, linkVars
<1>2. n \in Numbers /\ wire' \in Seq(Numbers) /\ IsInjective(wire') /\ n \in OnWire /\ OnWire' = OnWire \ {n}
  BY <1>1, TailElements DEF LogInv, LogTypeOK, Once, OnWire
<1> HIDE DEF n
<1>3. n \notin Out
  BY <1>2 DEF LogInv, Apart
<1>4. published' \in Seq(Numbers) /\ IsInjective(published') /\ Out' = Out \cup {n}
  BY <1>1, <1>2, <1>3, AppendElements, AppendProperties DEF LogInv, LogTypeOK, Once, Out
<1>5. InSender' = InSender /\ InPut' = InPut /\ InLogs' = InLogs
  BY <1>1 DEF InSender, InPut, InLogs, SenderAt
<1>6. LogTypeOK' /\ SenderHolds' /\ Once'
  BY <1>1, <1>2, <1>4 DEF LogInv, LogTypeOK, SenderHolds, Once, SenderAt
<1> QED BY <1>1, <1>2, <1>4, <1>5, <1>6 DEF Moves, MovesOut

LEMMA RestartMoves ==
  ASSUME LogInv, ConductorRestarts
  PROVE  LogTypeOK' /\ SenderHolds' /\ Once' /\ Moves
<1>1. /\ wire' = <<>> /\ reading' # reading /\ published' = published
      /\ created' = created /\ logs' = logs /\ evicting' = evicting /\ sender' = sender /\ links' = links /\ current' = current
  BY DEF ConductorRestarts, queueVars, linkVars
<1>2. wire' \in Seq(Numbers) /\ IsInjective(wire') /\ ToSet(wire') = {}
  BY <1>1, EmptySeq DEF ToSet, IsInjective
<1>3. OnWire' = {} /\ InSender' = InSender /\ InPut' = InPut /\ InLogs' = InLogs /\ Out' = Out
  BY <1>1, <1>2 DEF InSender, InPut, InLogs, OnWire, Out, SenderAt
<1>4. LogTypeOK' /\ SenderHolds' /\ Once'
  BY <1>1, <1>2 DEF LogInv, LogTypeOK, SenderHolds, Once, SenderAt
<1> QED BY <1>1, <1>3, <1>4 DEF Moves, MovesNowhere

LEMMA StepMoves ==
  ASSUME LogInv, [Next]_vars
  PROVE  LogTypeOK' /\ SenderHolds' /\ Once' /\ Moves
<1>1. CASE RelayStep /\ UNCHANGED feedVars
  BY <1>1, RelayMoves
<1>2. CASE ReceiveLog
  BY <1>2, ReceiveMoves
<1>3. CASE ConductorRestarts
  BY <1>3, RestartMoves
<1>4. CASE UNCHANGED <<queueVars, sender, linkVars, wire, published>>
  <2>1. sender' = sender /\ links' = links /\ current' = current /\ UNCHANGED <<queueVars, wire, published>>
    BY <1>4 DEF linkVars
  <2>2. /\ sender \in [pc : SenderStates, log : Nat, conn : Nat] /\ links \in Nat /\ current \in Nat
        /\ sender.pc \in {"holding", "sending", "returning"} <=> sender.log # 0
    BY DEF LogInv, LogTypeOK, SenderHolds
  <2> QED BY <2>1, <2>2, QuietMoves
<1> QED
  BY <1>1, <1>2, <1>3, <1>4 DEF Next, vars, relayVars, feedVars, ReceiveEnd, Schedule, PutLatest, OpenLogs, CloseLogs,
    HandlerStep, SendEvent

LEMMA LogKeeps ==
  ASSUME LogInv, [Next]_vars
  PROVE  LogInv'
<1>1. LogTypeOK' /\ SenderHolds' /\ Once' /\ Moves
  BY StepMoves
<1>2. Known /\ Apart /\ created \in Nat
  BY DEF LogInv, LogTypeOK
<1>3. Known'
  <2>1. \A n \in 1 .. created : n \in 1 .. created + 1
    BY <1>2
  <2>2. created + 1 \in 1 .. created + 1
    BY <1>2
  <2>3. InLogs' \cup InPut' \cup InSender' \cup OnWire' \cup Out' \subseteq 1 .. created'
    BY <1>1, <1>2, <2>1, <2>2 DEF Known, Moves, MovesNew, MovesPut, MovesTaken, MovesSent, MovesBack, MovesOut, MovesNowhere
  <2> QED BY <2>3 DEF Known
<1>4. Apart'
  <2>1. created + 1 \notin 1 .. created
    BY <1>2
  <2>2. created + 1 \notin InLogs \cup InPut \cup InSender \cup OnWire \cup Out
    BY <1>2, <2>1 DEF Known
  <2> QED
    BY <1>1, <1>2, <2>2 DEF Apart, Moves, MovesNew, MovesPut, MovesTaken, MovesSent, MovesBack, MovesOut, MovesNowhere
<1> QED BY <1>1, <1>3, <1>4 DEF LogInv

\* Every log is in one place at a time.
THEOREM LogInvariant == Spec => []LogInv
<1>1. LogInv /\ [Next]_vars => LogInv'
  BY LogKeeps
<1> QED BY LogInitial, <1>1, PTL DEF Spec
-----------------------------------------------------------------------------
(***************************************************************************)
(* What Held is.                                                           *)
(***************************************************************************)
HeldIs == ToSet(Held) = InLogs \cup InPut \cup InSender \cup OnWire

LEMMA OneIs ==
  ASSUME NEW n \in 0 .. MaxLogs
  PROVE  One(n) \in Seq(Numbers) /\ ToSet(One(n)) = {n} \ {0} /\ IsInjective(One(n))
<1>1. None \notin 0 .. MaxLogs
  BY FeedAssumption
<1>2. CASE n = 0
  BY <1>2, EmptySeq DEF One, ToSet, IsInjective
<1>3. CASE n # 0
  <2> DEFINE empty == <<>>
  <2>1. One(n) = Append(empty, n) /\ n \in Numbers
    BY <1>1, <1>3, RelayAssumption DEF One, Numbers
  <2>2. empty \in Seq(Numbers) /\ ToSet(empty) = {} /\ IsInjective(empty)
    BY EmptySeq DEF ToSet, IsInjective
  <2> HIDE DEF empty
  <2>3. Append(empty, n) \in Seq(Numbers) /\ ToSet(Append(empty, n)) = {n} /\ IsInjective(Append(empty, n))
    BY <2>1, <2>2, AppendElements, AppendProperties
  <2> QED BY <1>3, <2>1, <2>3
<1> QED BY <1>2, <1>3

LEMMA HeldElements ==
  ASSUME LogInv
  PROVE  Held \in Seq(Numbers) /\ HeldIs /\ IsInjective(Held)
<1> DEFINE inSender == IF SenderAt("returning") /\ evicting.by = "sender" THEN <<>> ELSE One(sender.log)
           put == One(evicting.log)
<1>1. logs \in Seq(Numbers) /\ wire \in Seq(Numbers) /\ IsInjective(logs) /\ IsInjective(wire)
  BY DEF LogInv, LogTypeOK, Once
<1>2. \A n \in Nat : n \in 1 .. created \/ n = 0 => n \in 0 .. MaxLogs
  BY RelayAssumption DEF LogInv, LogTypeOK
<1>3. put \in Seq(Numbers) /\ ToSet(put) = InPut /\ IsInjective(put)
  <2>1. evicting.log \in Nat /\ (evicting.log \in 1 .. created \/ evicting.log = 0)
    BY DEF LogInv, LogTypeOK, Known, InPut, NoPut, Numbers
  <2> QED BY <1>2, <2>1, OneIs DEF InPut
<1>4. inSender \in Seq(Numbers) /\ ToSet(inSender) = InSender /\ IsInjective(inSender)
  <2>1. CASE SenderAt("returning") /\ evicting.by = "sender"
    BY <2>1, EmptySeq DEF InSender, ToSet, IsInjective
  <2>2. CASE ~(SenderAt("returning") /\ evicting.by = "sender")
    <3>1. sender.log \in Nat /\ (sender.log \in 1 .. created \/ sender.log = 0)
      BY <2>2 DEF LogInv, LogTypeOK, Known, InSender
    <3>2. inSender = One(sender.log) /\ InSender = {sender.log} \ {0}
      BY <2>2 DEF InSender
    <3> QED BY <1>2, <3>1, <3>2, OneIs
  <2> QED BY <2>1, <2>2
<1>5. Held = ((logs \o put) \o inSender) \o wire
  BY DEF Held
<1> HIDE DEF put, inSender
<1>6. Apart
  BY DEF LogInv
<1> DEFINE begin == logs \o put
<1>7. begin \in Seq(Numbers) /\ ToSet(begin) = InLogs \cup InPut /\ IsInjective(begin)
  BY <1>1, <1>3, <1>6, ConcatElements DEF Apart, InLogs
<1> HIDE DEF begin
<1> DEFINE front == begin \o inSender
<1>8. front \in Seq(Numbers) /\ ToSet(front) = InLogs \cup InPut \cup InSender /\ IsInjective(front)
  <2>1. ToSet(begin) \cap ToSet(inSender) = {}
    BY <1>4, <1>6, <1>7 DEF Apart
  <2> QED BY <1>4, <1>7, <2>1, ConcatElements
<1> HIDE DEF front
<1>9. /\ front \o wire \in Seq(Numbers) /\ ToSet(front \o wire) = InLogs \cup InPut \cup InSender \cup OnWire
      /\ IsInjective(front \o wire)
  <2>1. ToSet(front) \cap ToSet(wire) = {}
    BY <1>6, <1>8 DEF Apart, OnWire
  <2>2. ToSet(wire) = OnWire
    BY DEF OnWire
  <2> QED BY <1>1, <1>8, <2>1, <2>2, ConcatElements
<1> QED BY <1>5, <1>9 DEF front, begin, HeldIs

\* No log is published twice, or is about to be: _sendLogs puts a log back only if it
\* was not sent, and no log is in two places (cli.py:26, 150).
THEOREM PublishedOnceHolds == Spec => []PublishedOnce
<1>1. LogInv => PublishedOnce
  <2> SUFFICES ASSUME LogInv PROVE PublishedOnce
    OBVIOUS
  <2>1. published \in Seq(Numbers) /\ IsInjective(published) /\ ToSet(published) \cap ToSet(Held) = {}
    BY HeldElements DEF LogInv, LogTypeOK, Once, HeldIs, Apart, Out
  <2>2. Held \in Seq(Numbers) /\ IsInjective(Held)
    BY HeldElements
  <2> QED BY <2>1, <2>2, ConcatElements DEF PublishedOnce
<1> QED BY <1>1, LogInvariant, PTL

\* A log that a queue, _sendLogs or the connection holds is lost only to a put() that
\* found the queue full, if it is the oldest in it, or with the connection that it was
\* sent on (cli.py:26, 150).
THEOREM LostForAReasonHolds == Spec => LostForAReason
<1>1. LogInv => HeldIs
  BY HeldElements
<1>2. LogInv /\ HeldIs /\ HeldIs' /\ [Next]_vars =>
        [\A n \in ToSet(Held) :
           \/ n \in ToSet(Held') \cup ToSet(published')
           \/ MakesRoom(n)
           \/ reading' # reading /\ n \in ToSet(wire)]_vars
  <2> SUFFICES ASSUME LogInv, HeldIs, HeldIs', [Next]_vars,
                      NEW n \in ToSet(Held), ~MakesRoom(n), ~(reading' # reading /\ n \in OnWire)
               PROVE  n \in ToSet(Held') \cup ToSet(published')
    BY DEF OnWire
  <2>1. n \in InLogs \cup InPut \cup InSender \cup OnWire
    BY DEF HeldIs
  <2>2. ToSet(Held') = InLogs' \cup InPut' \cup InSender' \cup OnWire' /\ ToSet(published') = Out'
    BY DEF HeldIs, Out
  <2>3. Moves
    BY StepMoves
  <2> QED
    BY <2>1, <2>2, <2>3 DEF Moves, MovesNew, MovesPut, MovesTaken, MovesSent, MovesBack, MovesOut, MovesNowhere
<1> QED BY <1>1, <1>2, LogInvariant, PTL DEF Spec, LostForAReason

-----------------------------------------------------------------------------
(***************************************************************************)
(* What one session is yet to be sent, stage by stage: its queue, the      *)
(* callbacks, and the event the receive thread has in hand.                *)
(***************************************************************************)
CallsIn(q, s) == {k \in DOMAIN q : q[k].session = s}

CalledIn(q, s) == {q[k].event : k \in CallsIn(q, s)}

Rising(q, s) == \A j, k \in CallsIn(q, s) : j < k => q[j].event < q[k].event

\* queue, called and announced are the newest of the l events published, in order, and
\* last came before them. Nothing but the last event is sent to a session that awaits
\* none, unless the history of the process is empty.
Flow(queue, called, announced, last, l, hist) ==
  /\ Increasing(queue)
  /\ Precede(ToSet(queue), called \cup announced)
  /\ Precede(called, announced)
  /\ Precede({last}, ToSet(queue) \cup called \cup announced)
  /\ \E n \in 1 .. l + 1 : ToSet(queue) \cup called \cup announced = n .. l
  /\ ToSet(queue) \cup called \cup announced = {} => last = l \/ (last = 0 /\ hist = <<>>)

Call == [session : Sessions, event : Numbers]

\* An interval without its least element.
LEMMA IntervalTail ==
  ASSUME NEW R \in SUBSET Nat, NEW h \in Nat, NEW l \in Nat, NEW n \in 1 .. l + 1,
         {h} \cup R = n .. l, \A x \in R : h < x
  PROVE  h = n /\ h \in 1 .. l /\ R = n + 1 .. l /\ n + 1 \in 1 .. l + 1
<1>1. h \in n .. l
  OBVIOUS
<1>2. n \in {h} \cup R
  BY <1>1
<1>3. h = n /\ h \in 1 .. l /\ n + 1 \in 1 .. l + 1
  BY <1>1, <1>2
<1>4. ASSUME NEW x \in R PROVE x \in n + 1 .. l
  <2>1. x \in n .. l /\ h < x
    BY <1>4
  <2> QED BY <1>3, <2>1
<1>5. ASSUME NEW x \in n + 1 .. l PROVE x \in R
  <2>1. x \in n .. l /\ x # h
    BY <1>3, <1>5
  <2> QED BY <2>1
<1> QED BY <1>3, <1>4, <1>5

\* publish() announces the next event to a session nothing is announced to.
LEMMA FlowAnnounces ==
  ASSUME NEW E \in Seq(Numbers), NEW C \in SUBSET Numbers, NEW last \in Nat, NEW l \in Nat, NEW hist,
         Flow(E, C, {}, last, l, hist)
  PROVE  \A next : Flow(E, C, {l + 1}, last, l + 1, next)
<1> DEFINE W == ToSet(E) \cup C
<1>1. W \cup {} = W /\ W \cup {l + 1} = ToSet(E) \cup C \cup {l + 1}
  OBVIOUS
<1>2. PICK n \in 1 .. l + 1 : W = n .. l
  BY <1>1 DEF Flow
<1>3. (\A x \in W : x \in Nat /\ x < l + 1) /\ n \in 1 .. l + 1 + 1 /\ W \cup {l + 1} = n .. l + 1
  BY <1>2
<1>4. last < l + 1
  <2>1. CASE W = {}
    BY <2>1 DEF Flow
  <2>2. CASE W # {}
    <3>1. PICK x \in W : TRUE
      BY <2>2
    <3>2. last < x
      BY <3>1 DEF Flow, Precede
    <3> QED BY <1>3, <3>1, <3>2
  <2> QED BY <2>1, <2>2
<1>5. /\ Precede(ToSet(E), C \cup {l + 1}) /\ Precede(C, {l + 1})
      /\ Precede({last}, ToSet(E) \cup C \cup {l + 1})
  BY <1>3, <1>4 DEF Flow, Precede
<1> QED BY <1>1, <1>3, <1>5 DEF Flow

\* call_soon_threadsafe() hands over what was announced.
LEMMA FlowSchedules ==
  ASSUME NEW E, NEW C, NEW A, NEW last, NEW l, NEW hist,
         Flow(E, C, A, last, l, hist)
  PROVE  Flow(E, C \cup A, {}, last, l, hist)
<1>1. ToSet(E) \cup (C \cup A) \cup {} = ToSet(E) \cup C \cup A /\ C \cup A \cup {} = C \cup A
  OBVIOUS
<1>2. Precede(C \cup A, {})
  BY DEF Precede
<1> QED BY <1>1, <1>2 DEF Flow

\* _putLatest() puts the first of the calls into the queue, for which the oldest may go.
LEMMA FlowPuts ==
  ASSUME NEW E \in Seq(Numbers), NEW C \in SUBSET Numbers, NEW A \in SUBSET Numbers,
         NEW e \in Numbers, NEW last \in Nat, NEW l \in Nat, NEW hist,
         Flow(E, {e} \cup C, A, last, l, hist), Precede({e}, C)
  PROVE  /\ Flow(Append(E, e), C, A, last, l, hist)
         /\ E # <<>> => Flow(Append(Tail(E), e), C, A, last, l, hist)
<1>1. Numbers \in SUBSET Nat
  BY DEF Numbers
<1>2. /\ Increasing(E) /\ (\A x \in ToSet(E) : x < e) /\ Precede(ToSet(E), C \cup A)
      /\ Precede({e}, C \cup A) /\ Precede(C, A) /\ last < e
  BY DEF Flow, Precede
<1> DEFINE W == ToSet(E) \cup ({e} \cup C) \cup A
<1>3. Precede({last}, W)
  BY DEF Flow
<1>4. PICK n \in 1 .. l + 1 : W = n .. l
  BY DEF Flow
<1>5. Flow(Append(E, e), C, A, last, l, hist)
  <2>1. Increasing(Append(E, e)) /\ ToSet(Append(E, e)) = ToSet(E) \cup {e}
    BY <1>1, <1>2, IncreasingAppend, AppendElements
  <2> DEFINE F == Append(E, e)
  <2> HIDE DEF F
  <2>2. ToSet(F) \cup C \cup A = W /\ e \in W
    BY <2>1 DEF F
  <2>3. Precede(ToSet(F), C \cup A)
    BY <1>2, <2>1 DEF Precede, F
  <2> QED BY <1>2, <1>3, <1>4, <2>1, <2>2, <2>3 DEF Flow, F
<1>6. ASSUME E # <<>> PROVE Flow(Append(Tail(E), e), C, A, last, l, hist)
  <2> DEFINE h == Head(E) T == Tail(E)
  <2>1. h \in Numbers /\ T \in Seq(Numbers) /\ ToSet(E) = ToSet(T) \cup {h} /\ Increasing(T) /\ \A y \in ToSet(T) : h < y
    BY <1>1, <1>2, <1>6, TailElements, IncreasingTail
  <2> HIDE DEF h, T
  <2>2. Increasing(Append(T, e)) /\ ToSet(Append(T, e)) = ToSet(T) \cup {e}
    BY <1>1, <1>2, <2>1, IncreasingAppend, AppendElements
  <2> DEFINE F == Append(T, e)
  <2> HIDE DEF F
  <2>3. ToSet(T) \subseteq Numbers
    BY <2>1, Elements
  <2>4. \A x \in ToSet(T) \cup {e} \cup C \cup A : h < x
    BY <1>2, <2>1 DEF Precede
  <2>5. W = {h} \cup (ToSet(T) \cup {e} \cup C \cup A)
    BY <2>1
  <2>6. ToSet(T) \cup {e} \cup C \cup A = n + 1 .. l /\ n + 1 \in 1 .. l + 1
    <3> DEFINE R == ToSet(T) \cup {e} \cup C \cup A
    <3>1. R \subseteq Nat /\ h \in Nat /\ e \in R
      BY <1>1, <2>1, <2>3
    <3> HIDE DEF R
    <3>2. {h} \cup R = n .. l /\ n \in 1 .. l + 1 /\ \A x \in R : h < x
      BY <1>4, <2>4, <2>5 DEF R
    <3>3. {h} \cup R = n .. l /\ R \in SUBSET Nat /\ h \in Nat /\ n \in 1 .. l + 1 /\ \A x \in R : h < x
      BY <3>1, <3>2
    <3>4. R = n + 1 .. l /\ n + 1 \in 1 .. l + 1
      BY <3>3, IntervalTail
    <3> QED BY <3>4 DEF R
  <2>7. ToSet(F) \cup C \cup A = n + 1 .. l /\ e \in ToSet(F) \cup C \cup A /\ ToSet(F) \cup C \cup A \subseteq W
    BY <2>2, <2>5, <2>6 DEF F
  <2>8. Precede(ToSet(F), C \cup A) /\ Precede({last}, ToSet(F) \cup C \cup A)
    BY <1>2, <1>3, <2>1, <2>2, <2>7 DEF Precede, F
  <2> QED BY <1>2, <2>2, <2>6, <2>7, <2>8 DEF Flow, F, T
<1> QED BY <1>5, <1>6

\* The handler takes the first event of the queue.
LEMMA FlowTakes ==
  ASSUME NEW E \in Seq(Numbers), NEW C \in SUBSET Numbers, NEW A \in SUBSET Numbers,
         NEW last \in Nat, NEW l \in Nat, NEW hist,
         Flow(E, C, A, last, l, hist), E # <<>>
  PROVE  Flow(Tail(E), C, A, Head(E), l, hist) /\ last < Head(E) /\ Head(E) \in 1 .. l
<1> DEFINE h == Head(E) T == Tail(E) W == ToSet(E) \cup C \cup A R == ToSet(T) \cup C \cup A
<1>1. Numbers \in SUBSET Nat
  BY DEF Numbers
<1>2. h \in Numbers /\ T \in Seq(Numbers) /\ ToSet(E) = ToSet(T) \cup {h} /\ Increasing(T) /\ \A y \in ToSet(T) : h < y
  BY <1>1, TailElements, IncreasingTail DEF Flow
<1> HIDE DEF h, T
<1>3. ToSet(T) \subseteq Numbers
  BY <1>2, Elements
<1>4. PICK n \in 1 .. l + 1 : W = n .. l
  BY DEF Flow
<1>5. W = {h} \cup R /\ R \subseteq Nat /\ h \in Nat /\ Precede({h}, R) /\ last < h
  BY <1>1, <1>2, <1>3 DEF Flow, Precede
<1>6. Precede(ToSet(T), C \cup A) /\ Precede(C, A)
  BY <1>2 DEF Flow, Precede
<1> HIDE DEF R, W
<1>7. \A x \in R : h < x
  BY <1>5 DEF Precede
<1>8. h = n /\ h \in 1 .. l /\ R = n + 1 .. l /\ n + 1 \in 1 .. l + 1
  <2>1. {h} \cup R = n .. l /\ R \in SUBSET Nat /\ h \in Nat /\ n \in 1 .. l + 1
    BY <1>4, <1>5
  <2> QED BY <1>7, <2>1, IntervalTail
<1>9. R = {} => h = l
  BY <1>8
<1> QED BY <1>2, <1>5, <1>6, <1>8, <1>9 DEF Flow, R, h, T

\* Another call at the end.
LEMMA CallsAppend ==
  ASSUME NEW q \in Seq(Call), NEW c \in Call, NEW s \in Sessions,
         Rising(q, s), c.session = s => Precede(CalledIn(q, s), {c.event})
  PROVE  /\ Rising(Append(q, c), s)
         /\ CalledIn(Append(q, c), s) = CalledIn(q, s) \cup (IF c.session = s THEN {c.event} ELSE {})
<1> DEFINE t == Append(q, c)
<1>1. /\ t \in Seq(Call) /\ Len(q) \in Nat
      /\ (\A i \in 1 .. Len(q) : t[i] = q[i]) /\ t[Len(q) + 1] = c
      /\ DOMAIN t = 1 .. Len(q) + 1 /\ DOMAIN q = 1 .. Len(q)
  BY AppendProperties, LenProperties
<1> HIDE DEF t
<1>2. CallsIn(t, s) = CallsIn(q, s) \cup (IF c.session = s THEN {Len(q) + 1} ELSE {})
  BY <1>1 DEF CallsIn
<1>3. \A k \in CallsIn(q, s) : k \in 1 .. Len(q) /\ t[k] = q[k] /\ q[k].event \in CalledIn(q, s)
  BY <1>1 DEF CallsIn, CalledIn
<1>4. CalledIn(t, s) = CalledIn(q, s) \cup (IF c.session = s THEN {c.event} ELSE {})
  BY <1>1, <1>2, <1>3 DEF CalledIn
<1>5. ASSUME NEW j \in CallsIn(t, s), NEW k \in CallsIn(t, s), j < k PROVE t[j].event < t[k].event
  <2>1. j \in 1 .. Len(q) + 1 /\ k \in 1 .. Len(q) + 1
    BY <1>1 DEF CallsIn
  <2>2. j \in CallsIn(q, s)
    BY <1>1, <1>2, <1>5, <2>1
  <2>3. CASE k \in CallsIn(q, s)
    BY <1>3, <1>5, <2>2, <2>3 DEF Rising
  <2>4. CASE k \notin CallsIn(q, s)
    <3>1. c.session = s /\ t[k] = c
      BY <1>1, <1>2, <2>4
    <3> QED BY <1>3, <2>2, <3>1 DEF Precede
  <2> QED BY <2>3, <2>4
<1> QED BY <1>4, <1>5 DEF Rising, t

\* The first call has run.
LEMMA CallsTail ==
  ASSUME NEW q \in Seq(Call), q # <<>>, NEW s \in Sessions, Rising(q, s)
  PROVE  /\ Rising(Tail(q), s)
         /\ Head(q).session = s => Precede({Head(q).event}, CalledIn(Tail(q), s))
         /\ CalledIn(q, s) = (IF Head(q).session = s THEN {Head(q).event} ELSE {}) \cup CalledIn(Tail(q), s)
<1> DEFINE h == Head(q) t == Tail(q)
<1>1. /\ t \in Seq(Call) /\ Len(q) \in Nat \ {0} /\ h = q[1]
      /\ (\A i \in 1 .. Len(q) - 1 : t[i] = q[i + 1])
      /\ DOMAIN q = 1 .. Len(q) /\ DOMAIN t = 1 .. Len(q) - 1
  <2>1. Head(q) \in Call /\ Tail(q) \in Seq(Call) /\ Len(q) \in Nat \ {0}
    BY HeadTailProperties, EmptySeq
  <2>2. Len(Tail(q)) = Len(q) - 1 /\ Head(q) = q[1] /\ (\A i \in 1 .. Len(q) - 1 : Tail(q)[i] = q[i + 1])
    BY HeadTailProperties, LenProperties, <2>1
  <2> QED BY <2>1, <2>2, LenProperties
<1> HIDE DEF h, t
<1>2. \A k \in CallsIn(t, s) : k \in Nat /\ 1 < k + 1 /\ k + 1 \in CallsIn(q, s) /\ t[k] = q[k + 1]
  BY <1>1 DEF CallsIn
<1>3. \A k \in CallsIn(q, s) : k = 1 \/ (k - 1 \in CallsIn(t, s) /\ t[k - 1] = q[k])
  BY <1>1 DEF CallsIn
<1>4. 1 \in CallsIn(q, s) <=> h.session = s
  BY <1>1 DEF CallsIn
<1>5. Rising(t, s)
  <2>1. ASSUME NEW j \in CallsIn(t, s), NEW k \in CallsIn(t, s), j < k PROVE t[j].event < t[k].event
    <3>1. j + 1 < k + 1
      BY <1>2, <2>1
    <3> QED BY <1>2, <2>1, <3>1 DEF Rising
  <2> QED BY <2>1 DEF Rising
<1>6. ASSUME h.session = s PROVE Precede({h.event}, CalledIn(t, s))
  BY <1>1, <1>2, <1>4, <1>6 DEF Precede, CalledIn, Rising
<1>7. CalledIn(q, s) = (IF h.session = s THEN {h.event} ELSE {}) \cup CalledIn(t, s)
  <2>1. ASSUME NEW k \in CallsIn(q, s) PROVE q[k].event \in (IF h.session = s THEN {h.event} ELSE {}) \cup CalledIn(t, s)
    BY <1>1, <1>3, <1>4 DEF CalledIn
  <2>2. ASSUME NEW k \in CallsIn(t, s) PROVE t[k].event \in CalledIn(q, s)
    BY <1>2 DEF CalledIn
  <2>3. h.session = s => h.event \in CalledIn(q, s)
    BY <1>1, <1>4 DEF CalledIn
  <2> QED BY <2>1, <2>2, <2>3 DEF CalledIn
<1> QED BY <1>5, <1>6, <1>7 DEF h, t

-----------------------------------------------------------------------------
(***************************************************************************)
(* The sessions.  SessionInOrder is not inductive: a session starts with   *)
(* the history, which must itself be the newest of what was published, and *)
(* no event may be announced to it, nor be in the hand of its handler,     *)
(* from before it subscribed.                                              *)
(***************************************************************************)
FeedTypeOK ==
  /\ subscribers \in SUBSET Sessions
  /\ events \in [Sessions -> Seq(Numbers)]
  /\ callbacks \in Seq(Call)
  /\ publishing \in [{Receiver} -> {Broker!Quiet} \cup [event : Numbers, to : (SUBSET Sessions) \ {{}}]]
  /\ inHand \in [Sessions -> Numbers \cup {None}]
  /\ shown \in [Sessions -> Nat]
  /\ history \in Seq(Numbers)

NewestPublished ==
  /\ Increasing(history)
  /\ \E n \in 1 .. Len(published) + 1 : ToSet(history) = n .. Len(published)

AnnouncesLast == publishing[Receiver].to # {} => publishing[Receiver].event = Len(published)

HandsAreEmpty == \A s \in Sessions \ subscribers : inHand[s] = None

InOrder(s) ==
  /\ Rising(callbacks, s)
  /\ Flow(events[s], CalledIn(callbacks, s), Announced(s), LastSent(s), Len(published), history)
  /\ inHand[s] # None => shown[s] < inHand[s]

FeedInv ==
  /\ FeedTypeOK /\ NewestPublished /\ AnnouncesLast /\ HandsAreEmpty
  /\ \A s \in subscribers : InOrder(s)

\* The events are numbered below None.
LEMMA PublishedBounded ==
  ASSUME LogInv
  PROVE  Len(published) \in Nat /\ None \notin 0 .. Len(published)
<1>1. published \in Seq(Numbers) /\ Out \subseteq 1 .. created /\ created \in 0 .. MaxLogs /\ IsInjective(published)
  BY DEF LogInv, LogTypeOK, Known, Once
<1>2. Len(published) \in Nat /\ Cardinality(Out) = Len(published)
  BY <1>1, LenProperties, InjectiveCardinality DEF Out
<1>3. created \in Nat /\ MaxLogs \in Nat /\ created <= MaxLogs
  BY <1>1, RelayAssumption
<1>4. IsFiniteSet(1 .. created) /\ Cardinality(1 .. created) = created
  <2>1. 1 \in Int /\ created \in Int
    BY <1>3
  <2>2. IsFiniteSet(1 .. created) /\ Cardinality(1 .. created) = (IF 1 > created THEN 0 ELSE created - 1 + 1)
    BY <2>1, FS_Interval
  <2> QED BY <1>3, <2>2
<1>5. Cardinality(Out) <= Cardinality(1 .. created)
  BY <1>1, <1>4, FS_Subset
<1>6. Len(published) <= MaxLogs
  BY <1>2, <1>3, <1>4, <1>5
<1> QED BY <1>2, <1>3, <1>6, FeedAssumption

LEMMA FeedInitial == Init => FeedInv
<1>1. <<>> \in Seq(Numbers) /\ <<>> \in Seq(Call) /\ Len(<<>>) = 0 /\ ToSet(<<>>) = {} /\ Increasing(<<>>)
  BY EmptySeq DEF ToSet, Increasing
<1>2. 1 \in 1 .. 0 + 1 /\ {} = 1 .. 0
  OBVIOUS
<1> SUFFICES ASSUME Init PROVE FeedInv
  OBVIOUS
<1>3. /\ history = <<>> /\ published = <<>> /\ shown = [s \in Sessions |-> 0] /\ subscribers = {}
      /\ events = [s \in Sessions |-> <<>>] /\ callbacks = <<>>
      /\ publishing = [t \in {Receiver} |-> Broker!Quiet] /\ inHand = [s \in Sessions |-> None]
  BY DEF Init, Broker!BrokerInit
<1>4. FeedTypeOK
  BY <1>1, <1>3 DEF FeedTypeOK
<1>5. NewestPublished
  BY <1>1, <1>2, <1>3 DEF NewestPublished
<1>6. AnnouncesLast /\ HandsAreEmpty
  BY <1>3 DEF AnnouncesLast, HandsAreEmpty, Broker!Quiet
<1> QED BY <1>3, <1>4, <1>5, <1>6 DEF FeedInv

\* What the invariant says of the parts of one session.
LEMMA PartsTypes ==
  ASSUME FeedTypeOK, NEW s \in Sessions
  PROVE  /\ events[s] \in Seq(Numbers) /\ CalledIn(callbacks, s) \in SUBSET Numbers
         /\ Announced(s) \in SUBSET Numbers /\ LastSent(s) \in Nat
<1>1. CalledIn(callbacks, s) \subseteq Numbers
  <2>1. ASSUME NEW k \in DOMAIN callbacks PROVE callbacks[k].event \in Numbers
    <3>1. callbacks[k] \in Call
      BY LenProperties, ElementOfSeq DEF FeedTypeOK
    <3> QED BY <3>1 DEF Call
  <2> QED BY <2>1 DEF CalledIn, CallsIn
<1>2. Announced(s) \in SUBSET Numbers
  BY DEF Announced, FeedTypeOK, Broker!Quiet
<1>3. LastSent(s) \in Nat
  BY DEF LastSent, FeedTypeOK, Numbers
<1> QED BY <1>1, <1>2, <1>3 DEF FeedTypeOK

\* Nothing happens to a session.
LEMMA SameOrder ==
  ASSUME NEW s, InOrder(s), events'[s] = events[s], Rising(callbacks', s),
         CalledIn(callbacks', s) = CalledIn(callbacks, s), Announced(s)' = Announced(s),
         inHand'[s] = inHand[s], shown'[s] = shown[s], published' = published, history' = history
  PROVE  InOrder(s)'
<1>1. LastSent(s)' = LastSent(s)
  BY DEF LastSent
<1> QED BY <1>1 DEF InOrder

LEMMA RestKeeps ==
  ASSUME FeedInv, UNCHANGED <<subscribers, events, callbacks, publishing, inHand, history, published, shown>>
  PROVE  FeedInv'
<1>1. ASSUME NEW s \in subscribers PROVE InOrder(s)'
  <2>1. InOrder(s) /\ Announced(s)' = Announced(s) /\ Rising(callbacks', s)
    BY DEF FeedInv, Announced, InOrder
  <2> QED BY <2>1, SameOrder
<1> QED BY <1>1 DEF FeedInv, FeedTypeOK, NewestPublished, AnnouncesLast, HandsAreEmpty

\* The history takes the next event, and gives up its oldest when it is full.
LEMMA HistoryKeeps ==
  ASSUME LogInv, FeedInv, Len(published') = Len(published) + 1,
         history' = Newest(Append(history, Len(published')), EventCapacity)
  PROVE  history' \in Seq(Numbers) /\ NewestPublished'
<1> DEFINE l == Len(published) h == history
<1>1. l \in Nat /\ l + 1 \in Numbers /\ h \in Seq(Numbers) /\ Increasing(h) /\ Numbers \in SUBSET Nat /\ EventCapacity \in Nat \ {0}
  BY PublishedBounded, FeedAssumption DEF FeedInv, FeedTypeOK, NewestPublished, Numbers
<1>2. PICK n \in 1 .. l + 1 : ToSet(h) = n .. l
  BY DEF FeedInv, NewestPublished
<1> DEFINE long == Append(h, l + 1)
<1>3. history' = IF Len(long) > EventCapacity THEN Tail(long) ELSE long
  BY DEF Newest
<1>4. long \in Seq(Numbers) /\ Increasing(long) /\ ToSet(long) = ToSet(h) \cup {l + 1} /\ Len(long) \in Nat
  <2>1. \A y \in ToSet(h) : y < l + 1
    BY <1>1, <1>2
  <2> HIDE DEF l, h
  <2> QED BY <1>1, <2>1, IncreasingAppend, AppendElements, AppendProperties, LenProperties
<1> HIDE DEF l, h, long
<1>5. ToSet(long) = n .. l + 1 /\ n \in 1 .. l + 1 + 1
  <2>1. \A a \in Nat : \A m \in 1 .. a + 1 : (m .. a) \cup {a + 1} = m .. a + 1 /\ m \in 1 .. a + 1 + 1
    OBVIOUS
  <2> QED BY <1>1, <1>2, <1>4, <2>1
<1>6. CASE ~(Len(long) > EventCapacity)
  BY <1>3, <1>4, <1>5, <1>6 DEF NewestPublished, l
<1>7. CASE Len(long) > EventCapacity
  <2>1. long # <<>>
    BY <1>4, <1>5, <1>1, <1>2 DEF ToSet
  <2> DEFINE T == Tail(long) k == Head(long)
  <2>2. k \in Numbers /\ T \in Seq(Numbers) /\ ToSet(long) = ToSet(T) \cup {k} /\ Increasing(T) /\ \A y \in ToSet(T) : k < y
    BY <1>1, <1>4, <2>1, TailElements, IncreasingTail
  <2>3. ToSet(T) \subseteq Numbers
    BY <2>2, Elements
  <2> HIDE DEF T, k
  <2>4. {k} \cup ToSet(T) = n .. l + 1 /\ ToSet(T) \in SUBSET Nat /\ k \in Nat /\ l + 1 \in Nat /\ \A y \in ToSet(T) : k < y
    <3>1. {k} \cup ToSet(T) = n .. l + 1
      BY <1>5, <2>2
    <3>2. ToSet(T) \in SUBSET Nat /\ k \in Nat /\ l + 1 \in Nat
      BY <1>1, <2>2, <2>3
    <3>3. \A y \in ToSet(T) : k < y
      BY <2>2
    <3> QED BY <3>1, <3>2, <3>3
  <2>5. ToSet(T) = n + 1 .. l + 1 /\ n + 1 \in 1 .. l + 1 + 1
    <3> DEFINE R == ToSet(T) m == l + 1
    <3>1. R \in SUBSET Nat /\ k \in Nat /\ m \in Nat /\ n \in 1 .. m + 1 /\ {k} \cup R = n .. m /\ \A y \in R : k < y
      BY <1>5, <2>4
    <3> HIDE DEF R, m
    <3>2. R = n + 1 .. m /\ n + 1 \in 1 .. m + 1
      BY <3>1, IntervalTail
    <3> QED BY <3>2 DEF R, m
  <2> QED BY <1>3, <1>7, <2>2, <2>5 DEF NewestPublished, l, T
<1> QED BY <1>6, <1>7

LEMMA ReceiveKeeps ==
  ASSUME LogInv, FeedInv, ReceiveLog
  PROVE  FeedInv'
<1> DEFINE l == Len(published)
<1>1. /\ published' = Append(published, Head(wire)) /\ wire # <<>> /\ publishing[Receiver] = Broker!Quiet
      /\ history' = Newest(Append(history, Len(published')), EventCapacity)
      /\ publishing' = [publishing EXCEPT ![Receiver] =
           IF subscribers = {} THEN Broker!Quiet ELSE [event |-> Len(published'), to |-> subscribers]]
      /\ UNCHANGED <<subscribers, events, callbacks, inHand, shown>>
  BY DEF ReceiveLog, Broker!Announce
<1>2. Len(published') = l + 1 /\ l \in Nat /\ l + 1 \in Numbers
  <2>1. Head(wire) \in Numbers /\ published \in Seq(Numbers)
    BY <1>1, TailElements DEF LogInv, LogTypeOK
  <2> QED BY <1>1, <2>1, AppendProperties, PublishedBounded DEF Numbers
<1>3. history' \in Seq(Numbers) /\ NewestPublished'
  BY <1>1, <1>2, HistoryKeeps
<1>4. /\ publishing' = [t \in {Receiver} |-> publishing'[t]]
      /\ publishing'[Receiver] = (IF subscribers = {} THEN Broker!Quiet ELSE [event |-> l + 1, to |-> subscribers])
  BY <1>1, <1>2 DEF FeedInv, FeedTypeOK
<1> HIDE DEF l
<1>5. FeedTypeOK' /\ AnnouncesLast' /\ HandsAreEmpty'
  <2>1. AnnouncesLast'
    BY <1>2, <1>4 DEF AnnouncesLast, Broker!Quiet
  <2>2. FeedTypeOK'
    BY <1>1, <1>2, <1>3, <1>4 DEF FeedInv, FeedTypeOK
  <2> QED BY <1>1, <2>1, <2>2 DEF FeedInv, HandsAreEmpty
<1>6. ASSUME NEW s \in subscribers PROVE InOrder(s)'
  <2>1. s \in Sessions /\ FeedTypeOK /\ InOrder(s)
    BY DEF FeedInv, FeedTypeOK
  <2>2. Announced(s) = {} /\ Announced(s)' = {l + 1} /\ LastSent(s)' = LastSent(s)
    BY <1>1, <1>4 DEF Announced, LastSent, Broker!Quiet
  <2>3. Flow(events[s], CalledIn(callbacks, s), {}, LastSent(s), l, history)
    BY <2>1, <2>2 DEF InOrder, l
  <2>4. Flow(events[s], CalledIn(callbacks, s), {l + 1}, LastSent(s), l + 1, history')
    BY <1>2, <2>1, <2>3, PartsTypes, FlowAnnounces
  <2> QED BY <1>1, <1>2, <2>1, <2>2, <2>4 DEF InOrder
<1> QED BY <1>1, <1>3, <1>5, <1>6 DEF FeedInv

LEMMA ScheduleKeeps ==
  ASSUME LogInv, FeedInv, Schedule
  PROVE  FeedInv'
<1>1. PICK r \in publishing[Receiver].to :
        /\ callbacks' = Append(callbacks, [session |-> r, event |-> publishing[Receiver].event])
        /\ publishing' = [publishing EXCEPT ![Receiver] =
             IF @.to = {r} THEN Broker!Quiet ELSE [event |-> @.event, to |-> @.to \ {r}]]
  BY DEF Schedule, Broker!Schedule
<1> DEFINE e == publishing[Receiver].event to == publishing[Receiver].to c == [session |-> r, event |-> e]
<1>2. UNCHANGED <<subscribers, events, inHand, history, published, shown>>
  BY DEF Schedule, Broker!Schedule
<1>3. e \in Numbers /\ e = Len(published) /\ to \in SUBSET Sessions /\ c \in Call /\ callbacks \in Seq(Call)
  BY DEF FeedInv, FeedTypeOK, AnnouncesLast, Broker!Quiet, Call
<1>4. publishing' = [t \in {Receiver} |-> publishing'[t]] /\ publishing'[Receiver].to = to \ {r}
      /\ (to # {r} => publishing'[Receiver] = [event |-> e, to |-> to \ {r}])
      /\ (to = {r} => publishing'[Receiver] = Broker!Quiet)
  <2> DEFINE next == IF to = {r} THEN Broker!Quiet ELSE [event |-> e, to |-> to \ {r}]
  <2>1. publishing' = [publishing EXCEPT ![Receiver] = next]
    BY <1>1
  <2>2. publishing = [t \in {Receiver} |-> publishing[t]]
    BY DEF FeedInv, FeedTypeOK
  <2> HIDE DEF next
  <2>3. publishing' = [t \in {Receiver} |-> publishing'[t]] /\ publishing'[Receiver] = next
    BY <2>1, <2>2
  <2> HIDE DEF e, to
  <2>4. CASE to = {r}
    BY <2>3, <2>4 DEF Broker!Quiet, next
  <2>5. CASE to # {r}
    BY <2>3, <2>5 DEF next
  <2> QED BY <2>4, <2>5
<1>5. callbacks' = Append(callbacks, c) /\ callbacks' \in Seq(Call)
  BY <1>1, <1>3, AppendProperties
<1> HIDE DEF e, to, c
<1>6. FeedTypeOK' /\ AnnouncesLast' /\ HandsAreEmpty' /\ NewestPublished'
  <2>1. AnnouncesLast'
    BY <1>2, <1>3, <1>4 DEF AnnouncesLast
  <2>2. publishing'[Receiver] \in {Broker!Quiet} \cup [event : Numbers, to : (SUBSET Sessions) \ {{}}]
    <3>1. r \in to
      BY DEF to
    <3>2. to # {r} => to \ {r} \in (SUBSET Sessions) \ {{}}
      BY <1>3, <3>1
    <3> QED BY <1>3, <1>4, <3>2
  <2>3. FeedTypeOK'
    BY <1>2, <1>4, <1>5, <2>2 DEF FeedInv, FeedTypeOK
  <2> QED BY <1>2, <2>1, <2>3 DEF FeedInv, HandsAreEmpty, NewestPublished
<1>7. ASSUME NEW s \in subscribers PROVE InOrder(s)'
  <2>1. s \in Sessions /\ InOrder(s) /\ FeedTypeOK
    BY DEF FeedInv, FeedTypeOK
  <2>2. Rising(callbacks, s)
    BY <2>1 DEF InOrder
  <2>3. CASE s # r
    <3>1. c.session # s
      BY <2>3 DEF c
    <3>2. Rising(callbacks', s) /\ CalledIn(callbacks', s) = CalledIn(callbacks, s)
      <4>1. c.session = s => Precede(CalledIn(callbacks, s), {c.event})
        BY <3>1
      <4>2. /\ Rising(Append(callbacks, c), s)
            /\ CalledIn(Append(callbacks, c), s) = CalledIn(callbacks, s) \cup (IF c.session = s THEN {c.event} ELSE {})
        BY <1>3, <2>1, <2>2, <4>1, CallsAppend
      <4> QED BY <1>5, <3>1, <4>2
    <3>3. Announced(s)' = Announced(s)
      BY <1>4, <2>3 DEF Announced, e, to
    <3> QED BY <1>2, <2>1, <3>2, <3>3, SameOrder
  <2>4. CASE s = r
    <3>1. c.session = s /\ c.event = e
      BY <2>4 DEF c
    <3>2. Announced(s) = {e} /\ Announced(s)' = {} /\ LastSent(s)' = LastSent(s)
      BY <1>1, <1>2, <1>4, <2>4 DEF Announced, LastSent, e, to
    <3>3. Flow(events[s], CalledIn(callbacks, s), {e}, LastSent(s), Len(published), history)
      BY <2>1, <3>2 DEF InOrder
    <3>4. Precede(CalledIn(callbacks, s), {e})
      BY <3>3 DEF Flow
    <3>5. Rising(callbacks', s) /\ CalledIn(callbacks', s) = CalledIn(callbacks, s) \cup {e}
      BY <1>3, <1>5, <2>1, <2>2, <3>1, <3>4, CallsAppend
    <3>6. Flow(events[s], CalledIn(callbacks, s) \cup {e}, {}, LastSent(s), Len(published), history)
      BY <3>3, FlowSchedules
    <3> QED BY <1>2, <2>1, <3>2, <3>5, <3>6 DEF InOrder
  <2> QED BY <2>3, <2>4
<1> QED BY <1>2, <1>6, <1>7 DEF FeedInv

LEMMA PutLatestKeeps ==
  ASSUME LogInv, FeedInv, PutLatest
  PROVE  FeedInv'
<1> DEFINE r == Head(callbacks).session e == Head(callbacks).event
           kept == IF Len(events[r]) = EventCapacity THEN Tail(events[r]) ELSE events[r]
<1>1. /\ callbacks # <<>> /\ callbacks' = Tail(callbacks)
      /\ events' = [events EXCEPT ![r] = IF r \in subscribers THEN Append(kept, e) ELSE @]
      /\ UNCHANGED <<subscribers, publishing, inHand, history, published, shown>>
  BY DEF PutLatest, Broker!PutLatest
<1>2. callbacks \in Seq(Call) /\ callbacks' \in Seq(Call) /\ r \in Sessions /\ e \in Numbers
  <2>1. callbacks \in Seq(Call)
    BY DEF FeedInv, FeedTypeOK
  <2>2. Head(callbacks) \in Call /\ Tail(callbacks) \in Seq(Call)
    BY <1>1, <2>1, TailElements
  <2> QED BY <1>1, <2>1, <2>2 DEF Call
<1>3. events[r] \in Seq(Numbers) /\ (Len(events[r]) = EventCapacity => events[r] # <<>>)
  <2>1. events[r] \in Seq(Numbers)
    BY <1>2 DEF FeedInv, FeedTypeOK
  <2>2. Len(<<>>) = 0 /\ EventCapacity # 0
    BY FeedAssumption
  <2> QED BY <2>1, <2>2
<1>4. kept \in Seq(Numbers)
  BY <1>3, TailElements
<1>5. /\ events' \in [Sessions -> Seq(Numbers)]
      /\ \A s \in Sessions : s # r \/ s \notin subscribers => events'[s] = events[s]
      /\ r \in subscribers => events'[r] = Append(kept, e)
  <2> HIDE DEF kept, r, e
  <2>1. Append(kept, e) \in Seq(Numbers) /\ events \in [Sessions -> Seq(Numbers)]
    BY <1>2, <1>4, AppendProperties DEF FeedInv, FeedTypeOK
  <2> QED BY <1>1, <1>2, <2>1
<1>6. FeedTypeOK' /\ AnnouncesLast' /\ HandsAreEmpty' /\ NewestPublished'
  BY <1>1, <1>2, <1>5 DEF FeedInv, FeedTypeOK, AnnouncesLast, HandsAreEmpty, NewestPublished
<1>7. ASSUME NEW s \in subscribers PROVE InOrder(s)'
  <2>1. s \in Sessions /\ InOrder(s) /\ FeedTypeOK
    BY DEF FeedInv, FeedTypeOK
  <2>2. Rising(callbacks, s)
    BY <2>1 DEF InOrder
  <2>3. Announced(s)' = Announced(s) /\ LastSent(s)' = LastSent(s)
    BY <1>1 DEF Announced, LastSent
  <2>4. /\ Rising(callbacks', s)
        /\ r = s => Precede({e}, CalledIn(callbacks', s))
        /\ CalledIn(callbacks, s) = (IF r = s THEN {e} ELSE {}) \cup CalledIn(callbacks', s)
    BY <1>1, <1>2, <2>1, <2>2, CallsTail
  <2>5. CASE s # r
    <3>1. CalledIn(callbacks', s) = CalledIn(callbacks, s) /\ events'[s] = events[s]
      BY <1>5, <2>1, <2>4, <2>5
    <3> QED BY <1>1, <2>1, <2>3, <2>4, <3>1, SameOrder
  <2>6. CASE s = r
    <3> DEFINE E == events[s] C == CalledIn(callbacks', s) A == Announced(s) last == LastSent(s)
    <3>1. events'[s] = Append(kept, e) /\ CalledIn(callbacks, s) = {e} \cup C /\ Precede({e}, C)
      BY <1>5, <2>4, <2>6
    <3>2. /\ E \in Seq(Numbers) /\ C \in SUBSET Numbers /\ A \in SUBSET Numbers /\ last \in Nat
          /\ Len(published) \in Nat /\ kept \in {E, Tail(E)} /\ (kept # E => E # <<>>)
      BY <1>3, <2>1, <2>4, <2>6, PartsTypes, PublishedBounded
    <3>3. Flow(E, {e} \cup C, A, last, Len(published), history)
      BY <2>1, <3>1 DEF InOrder
    <3> HIDE DEF E, C, A, last, kept, r, e
    <3>4. Flow(Append(kept, e), C, A, last, Len(published), history)
      BY <1>2, <3>1, <3>2, <3>3, FlowPuts
    <3>5. /\ Flow(events'[s], CalledIn(callbacks', s), Announced(s)', LastSent(s)', Len(published'), history')
          /\ inHand'[s] # None => shown'[s] < inHand'[s]
      BY <1>1, <2>1, <2>3, <3>1, <3>4 DEF C, A, last, InOrder
    <3> QED BY <2>4, <3>5 DEF InOrder
  <2> QED BY <2>5, <2>6
<1> QED BY <1>1, <1>6, <1>7 DEF FeedInv

LEMMA OpenKeeps ==
  ASSUME LogInv, FeedInv, NEW r \in Sessions, OpenLogs(r)
  PROVE  FeedInv'
<1>1. /\ subscribers' = subscribers \cup {r} /\ r \notin subscribers /\ ~Broker!Underway(r)
      /\ events' = [events EXCEPT ![r] = history] /\ shown' = [shown EXCEPT ![r] = 0]
      /\ UNCHANGED <<callbacks, publishing, inHand, history, published>>
  BY DEF OpenLogs, Broker!Subscribe
<1>2. /\ events' \in [Sessions -> Seq(Numbers)] /\ shown' \in [Sessions -> Nat]
      /\ events'[r] = history /\ shown'[r] = 0
      /\ \A s \in Sessions : s # r => events'[s] = events[s] /\ shown'[s] = shown[s]
  BY <1>1 DEF FeedInv, FeedTypeOK
<1>3. FeedTypeOK' /\ AnnouncesLast' /\ HandsAreEmpty' /\ NewestPublished'
  BY <1>1, <1>2 DEF FeedInv, FeedTypeOK, AnnouncesLast, HandsAreEmpty, NewestPublished
<1>4. ASSUME NEW s \in subscribers' PROVE InOrder(s)'
  <2>1. CASE s # r
    <3>1. s \in subscribers /\ s \in Sessions /\ InOrder(s)
      BY <1>1, <2>1 DEF FeedInv, FeedTypeOK
    <3>2. Announced(s)' = Announced(s) /\ Rising(callbacks', s)
      BY <1>1, <3>1 DEF Announced, InOrder
    <3> QED BY <1>1, <1>2, <2>1, <3>1, <3>2, SameOrder
  <2>2. CASE s = r
    <3>1. CallsIn(callbacks, s) = {} /\ CalledIn(callbacks, s) = {} /\ Announced(s) = {}
      BY <1>1, <2>2 DEF CallsIn, CalledIn, Announced, Broker!Underway
    <3>2. inHand[s] = None
      BY <1>1, <2>2 DEF FeedInv, HandsAreEmpty
    <3>3. LastSent(s)' = 0 /\ Announced(s)' = {} /\ CalledIn(callbacks', s) = {} /\ Rising(callbacks', s)
      BY <1>1, <1>2, <2>2, <3>1, <3>2 DEF LastSent, Announced, Rising
    <3>4. Flow(history, {}, {}, 0, Len(published), history)
      <4>1. Increasing(history) /\ ToSet(history) \subseteq Numbers
        BY Elements DEF FeedInv, FeedTypeOK, NewestPublished
      <4>2. ToSet(history) \cup {} = ToSet(history) /\ ToSet(history) \cup {} \cup {} = ToSet(history)
        OBVIOUS
      <4>3. PICK n \in 1 .. Len(published) + 1 : ToSet(history) = n .. Len(published)
        BY DEF FeedInv, NewestPublished
      <4>4. Precede({0}, ToSet(history)) /\ Precede(ToSet(history), {}) /\ Precede({}, {})
        BY <4>1 DEF Precede, Numbers
      <4>5. ToSet(history) = {} => history = <<>>
        <5>1. ASSUME history # <<>> PROVE Head(history) \in ToSet(history)
          <6>1. history \in Seq(Numbers)
            BY DEF FeedInv, FeedTypeOK
          <6>2. ToSet(history) = ToSet(Tail(history)) \cup {Head(history)}
            BY <5>1, <6>1, TailElements
          <6> QED BY <6>2
        <5> QED BY <5>1
      <4> QED BY <4>1, <4>2, <4>3, <4>4, <4>5 DEF Flow
    <3> QED BY <1>1, <1>2, <2>2, <3>2, <3>3, <3>4 DEF InOrder
  <2> QED BY <2>1, <2>2
<1> QED BY <1>3, <1>4 DEF FeedInv

LEMMA TakeKeeps ==
  ASSUME LogInv, FeedInv, NEW r \in Sessions, Broker!TakeEvent(r), UNCHANGED <<history, published, shown>>
  PROVE  FeedInv'
<1>1. /\ r \in subscribers /\ inHand[r] = None /\ events[r] # <<>>
      /\ inHand' = [inHand EXCEPT ![r] = Head(events[r])] /\ events' = [events EXCEPT ![r] = Tail(@)]
      /\ UNCHANGED <<subscribers, callbacks, publishing, history, published, shown>>
  BY DEF Broker!TakeEvent
<1>2. Head(events[r]) \in Numbers /\ Tail(events[r]) \in Seq(Numbers)
  <2>1. events[r] \in Seq(Numbers)
    BY DEF FeedInv, FeedTypeOK
  <2> QED BY <1>1, <2>1, TailElements
<1>3. /\ events' \in [Sessions -> Seq(Numbers)] /\ inHand' \in [Sessions -> Numbers \cup {None}]
      /\ events'[r] = Tail(events[r]) /\ inHand'[r] = Head(events[r])
      /\ \A s \in Sessions : s # r => events'[s] = events[s] /\ inHand'[s] = inHand[s]
  BY <1>1, <1>2 DEF FeedInv, FeedTypeOK
<1>4. FeedTypeOK' /\ AnnouncesLast' /\ HandsAreEmpty' /\ NewestPublished'
  BY <1>1, <1>3 DEF FeedInv, FeedTypeOK, AnnouncesLast, HandsAreEmpty, NewestPublished
<1>5. ASSUME NEW s \in subscribers PROVE InOrder(s)'
  <2>1. s \in Sessions /\ InOrder(s) /\ FeedTypeOK
    BY DEF FeedInv, FeedTypeOK
  <2>2. Announced(s)' = Announced(s) /\ Rising(callbacks', s)
    BY <1>1, <2>1 DEF Announced, InOrder
  <2>3. CASE s # r
    BY <1>1, <1>3, <2>1, <2>2, <2>3, SameOrder
  <2>4. CASE s = r
    <3> DEFINE E == events[s] C == CalledIn(callbacks, s) A == Announced(s) last == LastSent(s)
    <3>1. E \in Seq(Numbers) /\ C \in SUBSET Numbers /\ A \in SUBSET Numbers /\ last \in Nat
      BY <2>1, PartsTypes
    <3>2. Flow(E, C, A, last, Len(published), history) /\ E # <<>> /\ last = shown[s]
      BY <1>1, <2>1, <2>4 DEF InOrder, LastSent
    <3>3. Flow(Tail(E), C, A, Head(E), Len(published), history) /\ last < Head(E) /\ Head(E) \in 1 .. Len(published)
      <4> HIDE DEF E, C, A, last
      <4> QED BY <3>1, <3>2, PublishedBounded, FlowTakes
    <3>4. Head(E) # None
      BY <3>3, PublishedBounded
    <3>5. LastSent(s)' = Head(E)
      BY <1>3, <2>4, <3>4 DEF LastSent
    <3> QED BY <1>1, <1>3, <2>2, <2>4, <3>2, <3>3, <3>5 DEF InOrder
  <2> QED BY <2>3, <2>4
<1> QED BY <1>1, <1>4, <1>5 DEF FeedInv

LEMMA SendKeeps ==
  ASSUME LogInv, FeedInv, NEW r \in Sessions, SendEvent(r)
  PROVE  FeedInv'
<1>1. /\ inHand[r] # None /\ inHand' = [inHand EXCEPT ![r] = None] /\ shown' = [shown EXCEPT ![r] = inHand[r]]
      /\ UNCHANGED <<subscribers, events, callbacks, publishing, history, published>>
  BY DEF SendEvent, Broker!SendEvent
<1>2. /\ shown' \in [Sessions -> Nat] /\ inHand' \in [Sessions -> Numbers \cup {None}]
      /\ shown'[r] = inHand[r] /\ inHand'[r] = None
      /\ \A s \in Sessions : s # r => shown'[s] = shown[s] /\ inHand'[s] = inHand[s]
  <2>1. inHand[r] \in Nat
    BY <1>1 DEF FeedInv, FeedTypeOK, Numbers
  <2> QED BY <1>1, <2>1 DEF FeedInv, FeedTypeOK
<1>3. FeedTypeOK' /\ AnnouncesLast' /\ HandsAreEmpty' /\ NewestPublished'
  BY <1>1, <1>2 DEF FeedInv, FeedTypeOK, AnnouncesLast, HandsAreEmpty, NewestPublished
<1>4. ASSUME NEW s \in subscribers PROVE InOrder(s)'
  <2>1. s \in Sessions /\ InOrder(s)
    BY DEF FeedInv, FeedTypeOK
  <2>2. Announced(s)' = Announced(s) /\ Rising(callbacks', s)
    BY <1>1, <2>1 DEF Announced, InOrder
  <2>3. CASE s # r
    BY <1>1, <1>2, <2>1, <2>2, <2>3, SameOrder
  <2>4. CASE s = r
    <3>1. LastSent(s)' = LastSent(s)
      BY <1>1, <1>2, <2>4 DEF LastSent
    <3> QED BY <1>1, <1>2, <2>1, <2>2, <2>4, <3>1 DEF InOrder
  <2> QED BY <2>3, <2>4
<1> QED BY <1>1, <1>3, <1>4 DEF FeedInv

LEMMA DisconnectKeeps ==
  ASSUME FeedInv, NEW r \in Sessions, Broker!SendDisconnects(r), UNCHANGED <<history, published, shown>>
  PROVE  FeedInv'
<1>1. /\ inHand' = [inHand EXCEPT ![r] = None] /\ events' = [events EXCEPT ![r] = <<>>] /\ subscribers' = subscribers \ {r}
      /\ UNCHANGED <<callbacks, publishing, history, published, shown>>
  BY DEF Broker!SendDisconnects
<1>2. /\ events' \in [Sessions -> Seq(Numbers)] /\ inHand' \in [Sessions -> Numbers \cup {None}]
      /\ inHand'[r] = None /\ \A s \in Sessions : s # r => events'[s] = events[s] /\ inHand'[s] = inHand[s]
  <2>1. <<>> \in Seq(Numbers)
    BY EmptySeq
  <2> QED BY <1>1, <2>1 DEF FeedInv, FeedTypeOK
<1>3. FeedTypeOK' /\ AnnouncesLast' /\ HandsAreEmpty' /\ NewestPublished'
  BY <1>1, <1>2 DEF FeedInv, FeedTypeOK, AnnouncesLast, HandsAreEmpty, NewestPublished
<1>4. ASSUME NEW s \in subscribers' PROVE InOrder(s)'
  <2>1. s \in Sessions /\ s # r /\ InOrder(s)
    BY <1>1 DEF FeedInv, FeedTypeOK
  <2>2. Announced(s)' = Announced(s) /\ Rising(callbacks', s)
    BY <1>1, <2>1 DEF Announced, InOrder
  <2> QED BY <1>1, <1>2, <2>1, <2>2, SameOrder
<1> QED BY <1>3, <1>4 DEF FeedInv

LEMMA RestartKeeps ==
  ASSUME LogInv, FeedInv, ConductorRestarts
  PROVE  FeedInv'
<1>1. /\ history' = <<>> /\ subscribers' = {} /\ events' = [s \in Sessions |-> <<>>] /\ callbacks' = <<>>
      /\ publishing' = [t \in {Receiver} |-> Broker!Quiet] /\ inHand' = [s \in Sessions |-> None]
      /\ UNCHANGED <<published, shown>>
  BY DEF ConductorRestarts
<1>2. <<>> \in Seq(Numbers) /\ <<>> \in Seq(Call) /\ ToSet(<<>>) = {} /\ Increasing(<<>>)
  BY EmptySeq DEF ToSet, Increasing
<1>3. FeedTypeOK'
  BY <1>1, <1>2 DEF FeedInv, FeedTypeOK
<1>4. NewestPublished'
  <2> DEFINE l == Len(published)
  <2>1. ToSet(history') = {} /\ Increasing(history') /\ Len(published') = l
    BY <1>1, <1>2
  <2>2. l \in Nat
    BY PublishedBounded
  <2> HIDE DEF l
  <2>3. l + 1 \in 1 .. l + 1 /\ {} = l + 1 .. l
    BY <2>2
  <2> QED BY <2>1, <2>3 DEF NewestPublished
<1>5. AnnouncesLast' /\ HandsAreEmpty'
  BY <1>1 DEF AnnouncesLast, HandsAreEmpty, Broker!Quiet
<1> QED BY <1>1, <1>3, <1>4, <1>5 DEF FeedInv

LEMMA FeedKeeps ==
  ASSUME LogInv, FeedInv, [Next]_vars
  PROVE  FeedInv'
<1>1. CASE UNCHANGED <<subscribers, events, callbacks, publishing, inHand, history, published, shown>>
  BY <1>1, RestKeeps
<1>2. CASE (RelayStep /\ UNCHANGED feedVars) \/ ReceiveEnd \/ UNCHANGED vars
  BY <1>1, <1>2 DEF ReceiveEnd, vars, feedVars, brokerVars
<1>3. ASSUME NEW s \in Sessions, OpenLogs(s) \/ CloseLogs(s) \/ HandlerStep(s) PROVE FeedInv'
  <2>1. CASE CloseLogs(s)
    BY <1>1, <2>1 DEF CloseLogs, Broker!BrowserLeaves
  <2>2. CASE Broker!TakeEvent(s) /\ UNCHANGED <<relayVars, history, published, shown>>
    BY <2>2, TakeKeeps
  <2>3. CASE Broker!SendDisconnects(s) /\ UNCHANGED <<relayVars, history, published, shown>>
    BY <2>3, DisconnectKeeps
  <2> QED BY <1>3, <2>1, <2>2, <2>3, OpenKeeps, SendKeeps DEF HandlerStep
<1> QED
  BY <1>2, <1>3, ReceiveKeeps, ScheduleKeeps, PutLatestKeeps, RestartKeeps DEF Next

\* What the history, the queues, the callbacks and the handlers hold.
THEOREM FeedInvariant == Spec => []FeedInv
<1>1. LogInv /\ FeedInv /\ [Next]_vars => FeedInv'
  BY FeedKeeps
<1> QED BY FeedInitial, LogInvariant, <1>1, PTL DEF Spec

\* Whatever the interleaving of subscribe(), publish(), the event loop and the handlers,
\* every session is sent the newest events, each once, in order and without a gap
\* (process_event_broker.py:39, 69).
THEOREM SessionInOrderHolds == Spec => []SessionInOrder
<1>1. FeedInv => SessionInOrder
  <2> SUFFICES ASSUME FeedInv PROVE SessionInOrder
    OBVIOUS
  <2>1. ASSUME NEW s \in subscribers
        PROVE  Rising(callbacks, s) /\ Flow(events[s], Called(s), Announced(s), LastSent(s), Len(published), history)
                 /\ (inHand[s] # None => shown[s] < inHand[s])
    <3>1. Called(s) = CalledIn(callbacks, s)
      BY DEF Called, Calls, CalledIn, CallsIn
    <3> QED BY <3>1 DEF FeedInv, InOrder
  <2> QED BY <2>1 DEF SessionInOrder, Flow, Rising, CallsIn, Calls, Increasing, Awaited
<1> QED BY <1>1, FeedInvariant, PTL

-----------------------------------------------------------------------------
(***************************************************************************)
(* The connection.  Three threads clear it, each perhaps late              *)
(* (cli.py:140).                                                           *)
(***************************************************************************)
\* While neither end has closed the connection that is served, it is the one that logs
\* are sent on: no late _clearConnection() takes it from the log thread, which would
\* wait for a connection although there is one.
ServedIsReady == serving # 0 /\ reading = serving => current = serving

\* A connection is not established again under its number, so that one whose send has
\* failed stays unusable until it has been cleared.
ClearsUnusable ==
  sender.pc \in {"returning", "clearing"} /\ sender.conn # 0 => ~Usable(sender.conn)

Numbered ==
  /\ links \in Nat
  /\ serving \in 0 .. links /\ current \in 0 .. links /\ reading \in 0 .. links /\ sender.conn \in 0 .. links
  /\ DOMAIN sender = {"pc", "log", "conn"}

ReadyInv == Numbered /\ ServedIsReady /\ ClearsUnusable

LEMMA ReadyInitial == Init => ReadyInv
BY DEF Init, RelayInit, IdleSender, ReadyInv, Numbered, ServedIsReady, ClearsUnusable

\* Neither the connections nor who uses them: a log moves, the sender goes on.
LEMMA ReadyRests ==
  ASSUME ReadyInv, UNCHANGED <<links, serving, current>>, reading' \in {0, reading},
         DOMAIN sender' = {"pc", "log", "conn"}, sender'.conn \in {0, sender.conn},
         \/ sender'.conn = 0
         \/ sender'.pc \notin {"returning", "clearing"}
         \/ sender.pc \in {"returning", "clearing"}
         \/ ~Usable(sender.conn)
  PROVE  ReadyInv'
<1>1. Numbered' /\ ServedIsReady'
  BY DEF ReadyInv, Numbered, ServedIsReady
<1>2. ASSUME sender'.pc \in {"returning", "clearing"}, sender'.conn # 0 PROVE ~(sender'.conn = serving' /\ sender'.conn = reading')
  <2>1. sender'.conn = sender.conn /\ ~Usable(sender.conn)
    BY <1>2 DEF ReadyInv, ClearsUnusable
  <2> QED BY <1>2, <2>1 DEF Usable
<1> QED BY <1>1, <1>2 DEF ReadyInv, ClearsUnusable, Usable

LEMMA ReadyKeeps ==
  ASSUME LogInv, ReadyInv, [Next]_vars
  PROVE  ReadyInv'
<1>1. Numbered /\ ServedIsReady /\ ClearsUnusable
  BY DEF ReadyInv
<1>2. DOMAIN sender = {"pc", "log", "conn"}
  BY <1>1 DEF Numbered
<1>3. CASE UNCHANGED <<sender, links, serving, current>> /\ reading' \in {0, reading}
  BY <1>1, <1>2, <1>3, ReadyRests DEF Numbered
<1>4. CASE SenderEnds \/ SenderReady \/ TakeLog \/ TakeTimesOut \/ SendLog \/ SendFails \/ PutBack \/ PutBackEvicts
  <2>1. UNCHANGED <<links, serving, current, reading>>
    BY <1>4 DEF SenderEnds, SenderReady, TakeLog, TakeTimesOut, SendLog, SendFails, PutBack, PutBackEvicts, linkVars
  <2>2. CASE SenderEnds \/ SenderReady \/ TakeTimesOut \/ SendFails
    <3>1. /\ DOMAIN sender' = {"pc", "log", "conn"} /\ sender'.conn = sender.conn
          /\ sender'.pc \in {"returning", "clearing"} => ~Usable(sender.conn)
      BY <1>1, <1>2, <2>2 DEF SenderEnds, SenderReady, TakeTimesOut, SendFails, SenderGoes, LogInv, LogTypeOK
    <3> QED BY <2>1, <3>1, ReadyRests
  <2>3. CASE TakeLog \/ SendLog
    BY <2>1, <2>3, ReadyRests DEF TakeLog, SendLog, IdleSender
  <2>4. CASE PutBack \/ PutBackEvicts
    <3>1. sender.pc = "returning" /\ sender' \in {sender, Returned}
      BY <2>4 DEF PutBack, PutBackEvicts, SenderAt, LogInv, SenderHolds
    <3>2. Returned.conn = sender.conn /\ DOMAIN Returned = {"pc", "log", "conn"}
      BY DEF Returned
    <3> QED BY <1>2, <2>1, <3>1, <3>2, ReadyRests
  <2> QED BY <1>4, <2>2, <2>3, <2>4
<1>5. CASE LookUp
  <2>1. /\ UNCHANGED <<links, serving, current, reading>> /\ DOMAIN sender' = {"pc", "log", "conn"}
        /\ sender'.conn = current /\ sender'.pc = (IF current = 0 THEN "returning" ELSE "sending")
    BY <1>2, <1>5 DEF LookUp, linkVars, LogInv, LogTypeOK
  <2> QED BY <1>1, <2>1 DEF ReadyInv, Numbered, ServedIsReady, ClearsUnusable
<1>6. CASE SenderClears
  <2>1. /\ UNCHANGED <<links, serving, reading>> /\ sender.pc = "clearing" /\ sender' = IdleSender
        /\ current' = IF current = sender.conn THEN 0 ELSE current
    BY <1>6 DEF SenderClears, Cleared, SenderAt
  <2>2. ServedIsReady'
    BY <1>1, <2>1 DEF ServedIsReady, ClearsUnusable, Usable
  <2>3. Numbered' /\ ClearsUnusable'
    BY <1>1, <2>1 DEF Numbered, ClearsUnusable, IdleSender
  <2> QED BY <2>2, <2>3 DEF ReadyInv
<1>7. CASE Connected
  <2>1. /\ links' = links + 1 /\ serving' = links + 1 /\ current' = links + 1 /\ reading' = links + 1 /\ sender' = sender
    BY <1>7 DEF Connected
  <2>2. sender.conn # links + 1
    BY <1>1 DEF Numbered
  <2>3. Numbered'
    BY <1>1, <2>1 DEF Numbered
  <2> QED BY <2>1, <2>2, <2>3 DEF ReadyInv, ServedIsReady, ClearsUnusable, Usable
<1>8. CASE ReadsEnd \/ StopReceived \/ HeartbeatClears
  <2>1. /\ UNCHANGED <<links, reading, sender>> /\ current' \in {0, current}
        /\ serving' = 0 \/ (serving' = serving /\ current # 0 /\ ~Usable(current))
    BY <1>8 DEF ReadsEnd, StopReceived, HeartbeatClears, Cleared
  <2>2. Numbered'
    BY <1>1, <2>1 DEF Numbered
  <2>3. ServedIsReady'
    BY <1>1, <2>1 DEF ServedIsReady, Usable
  <2>4. ClearsUnusable'
    BY <1>1, <2>1 DEF ClearsUnusable, Usable
  <2> QED BY <2>2, <2>3, <2>4 DEF ReadyInv
<1>9. CASE Emit \/ EmitEvicts \/ ReceiveLog \/ ReceiveEnd \/ Schedule \/ PutLatest \/ ConductorRestarts \/ UNCHANGED vars
  BY <1>3, <1>9 DEF Emit, EmitEvicts, ReceiveLog, ReceiveEnd, Schedule, PutLatest, ConductorRestarts, vars, relayVars, linkVars
<1>10. ASSUME NEW s \in Sessions, OpenLogs(s) \/ CloseLogs(s) \/ HandlerStep(s) PROVE ReadyInv'
  BY <1>3, <1>10 DEF OpenLogs, CloseLogs, HandlerStep, SendEvent, relayVars, linkVars
<1> QED
  BY <1>4, <1>5, <1>6, <1>7, <1>8, <1>9, <1>10 DEF Next, RelayStep, SenderStep

\* However late the threads clear the connection, the one that is served stays.
THEOREM ServedIsReadyHolds == Spec => []ServedIsReady
<1>1. LogInv /\ ReadyInv /\ [Next]_vars => ReadyInv'
  BY ReadyKeeps
<1>2. ReadyInv => ServedIsReady
  BY DEF ReadyInv
<1> QED BY ReadyInitial, LogInvariant, <1>1, <1>2, PTL DEF Spec

=============================================================================
