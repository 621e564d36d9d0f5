----------------------------- MODULE MCConductor -----------------------------
(***************************************************************************)
(* Instances of Conductor for TLC.                                         *)
(***************************************************************************)
EXTENDS Conductor, TLC

\* Pids, connections and workers are interchangeable.
Symmetry == Permutations(Pids) \cup Permutations(Conns) \cup Permutations(Workers)

=============================================================================
