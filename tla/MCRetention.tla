---------------------------- MODULE MCRetention -----------------------------
(***************************************************************************)
(* Retention for TLC.                                                      *)
(***************************************************************************)
EXTENDS Retention, MCBackup
=============================================================================
