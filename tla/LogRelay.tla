------------------------------ MODULE LogRelay ------------------------------
(***************************************************************************)
(* The log relay of a stream process (src/stream/cli.py): threads that log *)
(* put a record into LatestLogQueue, and the thread of _sendLogs takes     *)
(* them out and sends them to the conductor over whichever connection is   *)
(* being served.                                                           *)
(*                                                                         *)
(* A log is a number in the order of creation. Connections are numbered in *)
(* the order in which they are established; that only one is open at a     *)
(* time, and that the conductor has read a connection to its end before    *)
(* there is another one, is what Conductor shows (OneConversation,         *)
(* CloseComesFirst).                                                       *)
(***************************************************************************)
EXTENDS Naturals, Sequences, SequencesExt

CONSTANTS
  LogCapacity,  \* the size of LatestLogQueue
  MaxLogs,      \* a bound on the logs a run creates
  MaxLinks      \* a bound on the connections a run establishes

ASSUME RelayAssumption ==
  /\ LogCapacity \in Nat \ {0}
  /\ MaxLogs \in Nat
  /\ MaxLinks \in Nat

VARIABLES
  created,   \* how many logs have been created
  logs,      \* LatestLogQueue._items
  evicting,  \* the log of a put() that found the queue full, and who is putting it
  sender,    \* the thread of _sendLogs: where it is, its message, its connection
  links,     \* how many connections there have been
  serving,   \* the connection the main thread receives from, 0 if it accepts
  current,   \* StreamProcess._connection, 0 for None; _connection_ready is current # 0
  stopped,   \* StreamProcess._stop_event
  reading,   \* the connection the conductor holds its end of, 0 if none
  wire       \* the logs sent on that connection and not read yet

queueVars == <<created, logs, evicting>>
linkVars == <<links, serving, current, stopped>>
relayVars == <<queueVars, sender, linkVars, reading, wire>>

Logs == 1 .. MaxLogs
Links == 0 .. MaxLinks

NoPut == [by |-> "nobody", log |-> 0]

SenderStates == {"waiting", "getting", "holding", "sending", "returning", "clearing", "ended"}

IdleSender == [pc |-> "waiting", log |-> 0, conn |-> 0]

RelayInit ==
  /\ created = 0
  /\ logs = <<>>
  /\ evicting = NoPut
  /\ sender = IdleSender
  /\ links = 0
  /\ serving = 0
  /\ current = 0
  /\ stopped = FALSE
  /\ reading = 0
  /\ wire = <<>>

-----------------------------------------------------------------------------
(***************************************************************************)
(* LatestLogQueue.put(). Callers exclude each other, the reader excludes   *)
(* nobody: between full() and get_nowait() it may take a log, and then a   *)
(* log is dropped although there is room by now. get_nowait() on a queue   *)
(* that is empty by now is tolerated.                                      *)
(***************************************************************************)
QueueFull == Len(logs) = LogCapacity

PutLog(who, n) ==
  /\ evicting = NoPut
  /\ IF QueueFull
     THEN evicting' = [by |-> who, log |-> n] /\ UNCHANGED logs
     ELSE logs' = Append(logs, n) /\ UNCHANGED evicting

EvictOldest ==
  /\ logs' = Append(IF logs = <<>> THEN logs ELSE Tail(logs), evicting.log)
  /\ evicting' = NoPut

\* PipeLogHandler.emit(); logging calls it for one record at a time. The handler is
\* removed some time after the stop, when nobody takes its logs any more.
Emit ==
  /\ created < MaxLogs
  /\ created' = created + 1
  /\ PutLog("emitter", created')
  /\ UNCHANGED <<sender, linkVars, reading, wire>>

EmitEvicts ==
  /\ evicting.by = "emitter"
  /\ EvictOldest
  /\ UNCHANGED <<created, sender, linkVars, reading, wire>>

-----------------------------------------------------------------------------
(***************************************************************************)
(* _sendLogs(): wait for a connection, take a log, look up the connection, *)
(* send. A log that could not be sent is put back, at the tail.            *)
(***************************************************************************)
SenderAt(pc) == sender.pc = pc

SenderGoes(pc) == sender' = [sender EXCEPT !.pc = pc]

SenderEnds ==
  /\ SenderAt("waiting")
  /\ stopped
  /\ SenderGoes("ended")
  /\ UNCHANGED <<queueVars, linkVars, reading, wire>>

SenderReady ==
  /\ SenderAt("waiting")
  /\ ~stopped
  /\ current # 0
  /\ SenderGoes("getting")
  /\ UNCHANGED <<queueVars, linkVars, reading, wire>>

TakeLog ==
  /\ SenderAt("getting")
  /\ logs # <<>>
  /\ sender' = [pc |-> "holding", log |-> Head(logs), conn |-> 0]
  /\ logs' = Tail(logs)
  /\ UNCHANGED <<created, evicting, linkVars, reading, wire>>

\* get() has found nothing for 0.2 seconds.
TakeTimesOut ==
  /\ SenderAt("getting")
  /\ logs = <<>>
  /\ SenderGoes("waiting")
  /\ UNCHANGED <<queueVars, linkVars, reading, wire>>

LookUp ==
  /\ SenderAt("holding")
  /\ sender' = [sender EXCEPT !.pc = IF current = 0 THEN "returning" ELSE "sending",
                              !.conn = current]
  /\ UNCHANGED <<queueVars, linkVars, reading, wire>>

\* Neither end of the connection has been closed.
Usable(c) == c = serving /\ c = reading

\* Mutant: the log goes back whether it was sent or not.
SendLogReturns ==
  /\ SenderAt("sending")
  /\ Usable(sender.conn)
  /\ wire' = Append(wire, sender.log)
  /\ SenderGoes("returning")
  /\ UNCHANGED <<queueVars, linkVars, reading>>

SendLog ==
  /\ SenderAt("sending")
  /\ Usable(sender.conn)
  /\ wire' = Append(wire, sender.log)
  /\ sender' = IdleSender
  /\ UNCHANGED <<queueVars, linkVars, reading>>

SendFails ==
  /\ SenderAt("sending")
  /\ ~Usable(sender.conn)
  /\ SenderGoes("returning")
  /\ UNCHANGED <<queueVars, linkVars, reading, wire>>

\* After the log is back: go on to _clearConnection, or to the next round.
Returned == [pc |-> IF sender.conn = 0 THEN "waiting" ELSE "clearing",
             log |-> 0, conn |-> sender.conn]

\* Mutant: without a connection the log is forgotten.
PutBackUnlessUnconnected ==
  /\ SenderAt("returning")
  /\ IF sender.conn = 0
     THEN UNCHANGED <<logs, evicting>> /\ sender' = Returned
     ELSE PutLog("sender", sender.log) /\ sender' = IF QueueFull THEN sender ELSE Returned
  /\ UNCHANGED <<created, linkVars, reading, wire>>

PutBack ==
  /\ SenderAt("returning")
  /\ PutLog("sender", sender.log)
  /\ sender' = IF QueueFull THEN sender ELSE Returned
  /\ UNCHANGED <<created, linkVars, reading, wire>>

PutBackEvicts ==
  /\ evicting.by = "sender"
  /\ EvictOldest
  /\ sender' = Returned
  /\ UNCHANGED <<created, linkVars, reading, wire>>

\* Mutant: without the comparison.
ClearedAlways(c) == 0

\* _clearConnection(), which leaves the connection of somebody else alone.
Cleared(c) == IF current = c THEN 0 ELSE current

SenderClears ==
  /\ SenderAt("clearing")
  /\ current' = Cleared(sender.conn)
  /\ sender' = IdleSender
  /\ UNCHANGED <<queueVars, links, serving, stopped, reading, wire>>

-----------------------------------------------------------------------------
(***************************************************************************)
(* The connections: the main thread serves one after the other, until it   *)
(* reads the end of it or a stop message.                                  *)
(***************************************************************************)
Connected ==
  /\ ~stopped
  /\ serving = 0
  /\ reading = 0
  /\ links < MaxLinks
  /\ links' = links + 1
  /\ serving' = links'
  /\ current' = links'
  /\ reading' = links'
  /\ UNCHANGED <<queueVars, sender, stopped, wire>>

ReadsEnd ==
  /\ serving # 0
  /\ reading # serving
  /\ current' = Cleared(serving)
  /\ serving' = 0
  /\ UNCHANGED <<queueVars, sender, links, stopped, reading, wire>>

\* A stop message; the main thread clears and closes the connection. What was
\* sent can still be read.
StopReceived ==
  /\ serving # 0
  /\ reading = serving
  /\ stopped' = TRUE
  /\ current' = Cleared(serving)
  /\ serving' = 0
  /\ UNCHANGED <<queueVars, sender, links, reading, wire>>

\* The heartbeat thread, whose send has failed.
HeartbeatClears ==
  /\ current # 0
  /\ ~Usable(current)
  /\ current' = 0
  /\ UNCHANGED <<queueVars, sender, links, serving, stopped, reading, wire>>

-----------------------------------------------------------------------------
SenderStep ==
  \/ SenderEnds
  \/ SenderReady
  \/ TakeLog
  \/ TakeTimesOut
  \/ LookUp
  \/ SendLog
  \/ SendFails
  \/ PutBack
  \/ PutBackEvicts
  \/ SenderClears

RelayStep ==
  \/ Emit
  \/ EmitEvicts
  \/ SenderStep
  \/ Connected
  \/ ReadsEnd
  \/ StopReceived
  \/ HeartbeatClears

=============================================================================
