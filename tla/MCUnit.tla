------------------------------- MODULE MCUnit -------------------------------
(* Instances of a unit for TLC. *)
EXTENDS Unit

MCFiles == {"parameters", "model", "postprocess"}
MCChecked == {"model", "postprocess"}

Setup(interval, packets, times, conns, saves, results) ==
  [interval |-> interval, packets |-> packets, times |-> times, connections |-> conns,
   saves |-> saves, results |-> results]

MCResults == 1 .. 3

MCSetups ==
  {Setup(0, 4, 3, 2, 0, {}),      \* the jitter buffer and the connections
   Setup(2, 4, 1, 1, 0, {1}),     \* the counters
   Setup(1, 2, 1, 1, 2, {}),      \* reloading by the frame loop
   Setup(1, 2, 1, 1, 1, {1}),     \* reloading by the consumer
   Setup(1, 4, 1, 1, 0, 1 .. 3)}  \* results

=============================================================================
