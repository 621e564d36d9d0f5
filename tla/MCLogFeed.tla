----------------------------- MODULE MCLogFeed -----------------------------
(***************************************************************************)
(* An instance of LogFeed for TLC.                                         *)
(***************************************************************************)
EXTENDS LogFeed, TLC

=============================================================================
