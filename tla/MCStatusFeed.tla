---------------------------- MODULE MCStatusFeed ----------------------------
(***************************************************************************)
(* An instance of StatusFeed for TLC.                                      *)
(***************************************************************************)
EXTENDS StatusFeed, TLC

=============================================================================
