---------------------------- MODULE ControlPipe ----------------------------
(***************************************************************************)
(* The control channel between the conductor and one stream process: a     *)
(* Windows named pipe, used through multiprocessing.connection.  The       *)
(* library is external; it is modelled from the way the two ends use it:   *)
(* src/stream/cli.py (Listener, accept, recv_bytes, send_bytes, close) and *)
(* src/conductor/process/stream_connection.py (Client, the same calls).    *)
(*                                                                         *)
(* A connection is a link.  The server end belongs to a process of Pids,   *)
(* the client end to the conductor.  Either end may disappear first, and   *)
(* the other end still reads what was sent before it learns of it.         *)
(***************************************************************************)
EXTENDS Naturals, Sequences, FiniteSets

CONSTANTS
  Ids,            \* process identifiers, the keys of the process table
  Pids,           \* operating system process identifiers
  Conns,          \* connection objects of the conductor
  None,           \* no process, no connection
  MaxBeats,       \* heartbeats a link buffers before the model coalesces them
  MaxControl      \* control messages a link buffers

ASSUME ConstantsAssumption ==
  /\ None \notin Pids \cup Conns
  /\ MaxBeats \in Nat \ {0}
  /\ MaxControl \in Nat \ {0}

VARIABLES
  link,           \* the state of each connection and the identifiers of its ends
  toServer,       \* control messages sent and not yet received
  toClient        \* heartbeats sent and not yet received

pipeVars == <<link, toServer, toClient>>

(***************************************************************************)
(* pending: the client opened an instance of the pipe, the server has not  *)
(* accepted it.  open: both sides authenticated.  refused, broken: the     *)
(* server end is gone, before or after that.  abandoned, orphaned: the     *)
(* client end is gone, before or after that.                               *)
(***************************************************************************)
LinkStates ==
  {"free", "pending", "open", "refused", "broken", "abandoned", "orphaned"}

FreeLink == [id |-> None, server |-> None, state |-> "free"]

PipeTypeOK ==
  /\ link \in [Conns -> [id : Ids \cup {None}, server : Pids \cup {None},
                         state : LinkStates]]
  /\ toServer \in [Conns -> Seq({"hello", "stop"})]
  /\ toClient \in [Conns -> 0 .. MaxBeats]

PipeInit ==
  /\ link = [c \in Conns |-> FreeLink]
  /\ toServer = [c \in Conns |-> << >>]
  /\ toClient = [c \in Conns |-> 0]

WaitingOn(p) == {c \in Conns : link[c].server = p
                                 /\ link[c].state \in {"pending", "abandoned"}}

ServedBy(p) == {c \in Conns : link[c].server = p
                                /\ link[c].state \in {"open", "orphaned"}}

(***************************************************************************)
(* What the server's end of a link becomes when the server closes it, and  *)
(* the client's end when the client does.  A link both ends have left is   *)
(* free again.                                                             *)
(***************************************************************************)
ServerClosed(l) ==
  CASE l.state = "pending" -> [l EXCEPT !.state = "refused"]
    [] l.state = "open"    -> [l EXCEPT !.state = "broken"]
    [] l.state \in {"abandoned", "orphaned"} -> FreeLink
    [] OTHER -> l

ClientClosed(l) ==
  CASE l.state = "pending" -> [l EXCEPT !.state = "abandoned"]
    [] l.state = "open"    -> [l EXCEPT !.state = "orphaned"]
    [] l.state \in {"refused", "broken"} -> FreeLink
    [] OTHER -> l

(***************************************************************************)
(* The two ends leave the links of cs.  What the other end already sent is *)
(* lost to the end that closes; what it sent itself stays readable.        *)
(***************************************************************************)
CloseServerEnd(cs) ==
  /\ link' = [c \in Conns |-> IF c \in cs THEN ServerClosed(link[c]) ELSE link[c]]
  /\ toServer' = [c \in Conns |-> IF c \in cs THEN << >> ELSE toServer[c]]
  /\ UNCHANGED toClient

CloseClientEnd(cs) ==
  /\ link' = [c \in Conns |-> IF c \in cs THEN ClientClosed(link[c]) ELSE link[c]]
  /\ toClient' = [c \in Conns |-> IF c \in cs THEN 0 ELSE toClient[c]]
  /\ UNCHANGED toServer

=============================================================================
