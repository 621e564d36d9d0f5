--------------------------- MODULE SingleInstance ---------------------------
(***************************************************************************)
(* What the guard of the stream process and the lock of the plumber        *)
(* promise: of all the processes started for an identifier, at most one at *)
(* a time is past the guard, or alive.                                     *)
(***************************************************************************)
CONSTANTS Ids, Pids

VARIABLE running        \* the guarded processes of each identifier

Init == running = [i \in Ids |-> {}]

Enter(i, p) ==
  /\ running[i] = {}
  /\ running' = [running EXCEPT ![i] = {p}]

Leave(i) ==
  /\ running[i] # {}
  /\ running' = [running EXCEPT ![i] = {}]

Next == \E i \in Ids : Leave(i) \/ \E p \in Pids : Enter(i, p)

Spec == Init /\ [][Next]_running

=============================================================================
