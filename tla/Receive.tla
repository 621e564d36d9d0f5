------------------------------ MODULE Receive ------------------------------
(***************************************************************************)
(* receive() (src/nvidia_pipe/receive.py): a generator that connects to    *)
(* the input, reads its packets, sorts them in a jitter buffer, and        *)
(* connects again when the input fails or ends. It runs in the thread that *)
(* asks it for a packet, while it is asked.                                *)
(*                                                                         *)
(* A packet is its place in the order of arrival. Its bytes, its duration  *)
(* and the counts of packets out of order are left out; a packet without   *)
(* timestamps is skipped and leaves no trace.                              *)
(***************************************************************************)
EXTENDS Naturals, Sequences, SequencesExt, FiniteSets

CONSTANT BufferSize     \* input.rtsp.jitter_buffer

ASSUME ReceiveAssumption == BufferSize \in Nat

VARIABLES
  connections,  \* how many there have been
  reading,      \* the container is open
  inputStatus,  \* input_rtsp_status
  arrived,      \* the packets: the connection and the presentation time of each
  buffer,       \* jitter_packets
  released      \* the packets that were handed on, in order

receiveVars == <<connections, reading, inputStatus, arrived, buffer, released>>

ReceiveTypeOK ==
  /\ connections \in Nat
  /\ reading \in BOOLEAN
  /\ inputStatus \in {"connected", "disconnected"}
  /\ arrived \in Seq([by : Nat, pts : Nat])
  /\ buffer \subseteq DOMAIN arrived
  /\ released \in Seq(DOMAIN arrived)

ReceiveInit ==
  /\ connections = 0
  /\ reading = FALSE
  /\ inputStatus = "disconnected"
  /\ arrived = <<>> /\ buffer = {} /\ released = <<>>

\* av.open() and the look at the stream. The buffer is a new one.
Connects ==
  /\ ~reading
  /\ connections' = connections + 1
  /\ reading' = TRUE
  /\ inputStatus' = "connected"
  /\ buffer' = {}
  /\ UNCHANGED <<arrived, released>>

\* Mutant: the status is only reset when a container was open.
ConnectFailsQuietly == ~reading /\ UNCHANGED receiveVars

\* An error of av.open(), or a container without video.
ConnectFails ==
  /\ ~reading
  /\ inputStatus' = "disconnected"
  /\ UNCHANGED <<connections, reading, arrived, buffer, released>>

\* Mutant: equal times are not told apart by arrival.
BeforeByTime(i, j) == arrived'[i].pts < arrived'[j].pts \/ (arrived'[i].pts = arrived'[j].pts /\ i >= j)

\* The order of the heap: by time, then by arrival.
Before(i, j) == arrived'[i].pts < arrived'[j].pts \/ (arrived'[i].pts = arrived'[j].pts /\ i <= j)

\* Mutant: the buffer is looked at before the packet is in it.
ArrivesAtFull(pts) ==
  /\ reading
  /\ arrived' = Append(arrived, [by |-> connections, pts |-> pts])
  /\ LET held == buffer \cup {Len(arrived')}
         first == CHOOSE i \in held : \A j \in held : Before(i, j)
     IN IF Cardinality(buffer) > BufferSize
        THEN buffer' = held \ {first} /\ released' = Append(released, first)
        ELSE buffer' = held /\ UNCHANGED released
  /\ UNCHANGED <<connections, reading, inputStatus>>

\* demux() has a packet: it goes into the buffer, and if that is too many the first
\* of them comes out. With a buffer size of zero that is the packet itself.
Arrives(pts) ==
  /\ reading
  /\ arrived' = Append(arrived, [by |-> connections, pts |-> pts])
  /\ LET held == buffer \cup {Len(arrived')}
         first == CHOOSE i \in held : \A j \in held : Before(i, j)
     IN IF Cardinality(held) > BufferSize
        THEN buffer' = held \ {first} /\ released' = Append(released, first)
        ELSE buffer' = held /\ UNCHANGED released
  /\ UNCHANGED <<connections, reading, inputStatus>>

\* An error while reading.
ReadFails ==
  /\ reading
  /\ reading' = FALSE /\ inputStatus' = "disconnected"
  /\ UNCHANGED <<connections, arrived, buffer, released>>

\* The input has ended: no error, and the status stays.
InputEnds ==
  /\ reading
  /\ reading' = FALSE
  /\ UNCHANGED <<connections, inputStatus, arrived, buffer, released>>

-----------------------------------------------------------------------------

Of(c) == {i \in DOMAIN arrived : arrived[i].by = c}

\* How many packets of a later time a packet had to let pass.
Lateness(i) == Cardinality({k \in Of(arrived[i].by) : k < i /\ arrived[k].pts > arrived[i].pts})

\* The jitter buffer (receive.py:144): packets of a connection that are late by no more
\* than it holds are handed on by time, and those of one time in the order of arrival.
ReleasedInOrder ==
  \A j, k \in DOMAIN released : LET p == released[j] q == released[k] IN
    j < k /\ arrived[p].by = arrived[q].by /\ (\A i \in Of(arrived[p].by) : Lateness(i) <= BufferSize) =>
      arrived[p].pts < arrived[q].pts \/ (arrived[p].pts = arrived[q].pts /\ p < q)

\* Whatever the order, each packet is handed on once or is held, and no connection
\* leaves more behind than the buffer size (receive.py:149, and :90 on a new connection).
HeldOrReleased ==
  /\ IsInjective(released)
  /\ Of(connections) \ ToSet(released) = buffer
  /\ \A c \in 1 .. connections : Cardinality(Of(c) \ ToSet(released)) <= BufferSize

=============================================================================
