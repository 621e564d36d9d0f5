------------------------------ MODULE MCPlumber ------------------------------
(***************************************************************************)
(* The module of the runs of Plumber; their instances are in the .cfg.     *)
(***************************************************************************)
EXTENDS Plumber

=============================================================================
