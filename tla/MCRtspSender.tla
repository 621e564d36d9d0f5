---------------------------- MODULE MCRtspSender ----------------------------
(***************************************************************************)
(* Instances of RtspSender for TLC.                                        *)
(***************************************************************************)
EXTENDS RtspSender, TLC

\* Workers are interchangeable.
Symmetry == Permutations(Workers)

=============================================================================
