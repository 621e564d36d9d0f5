----------------------------- MODULE RtspOutput -----------------------------
(***************************************************************************)
(* What the sender promises the RTSP server: one publisher at a time, a    *)
(* publisher that begins with a keyframe, and packets in the order the     *)
(* encoder made them, some of them missing.                                *)
(***************************************************************************)
EXTENDS Naturals

CONSTANTS Workers, MaxPackets

VARIABLES
  publishers,     \* the workers whose connection has carried a packet
  last            \* the last packet the server received

NoPacket == [n |-> 0, key |-> FALSE]

\* The numbers of packets stop at MaxPackets, which stands for all later ones.
Newer(m, n) == n > m \/ (m = MaxPackets /\ n = MaxPackets)

Init == publishers = {} /\ last = NoPacket

Begin(p, n) ==
  /\ publishers = {}
  /\ Newer(last.n, n)
  /\ publishers' = {p}
  /\ last' = [n |-> n, key |-> TRUE]

Continue(p, n, k) ==
  /\ publishers = {p}
  /\ Newer(last.n, n)
  /\ last' = [n |-> n, key |-> k]
  /\ UNCHANGED publishers

End ==
  /\ publishers # {}
  /\ publishers' = {}
  /\ UNCHANGED last

Next ==
  \/ \E p \in Workers, n \in 1 .. MaxPackets :
       Begin(p, n) \/ \E k \in BOOLEAN : Continue(p, n, k)
  \/ End

Spec == Init /\ [][Next]_<<publishers, last>>

=============================================================================
