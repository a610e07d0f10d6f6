------------------------------ MODULE MCBackup ------------------------------
(***************************************************************************)
(* Backup and Restore for TLC.                                             *)
(***************************************************************************)
EXTENDS Restore

(* One put per document.  Valid times do not matter to the backup, and     *)
(* deletes and puts are shipped and restored alike.                        *)
Puts == [collection : Collections, key : Keys, op : {OpPut}, value : Values,
         validFrom : {ZeroTime}]

(* From after the first instant to after everything. *)
AllCutoffs == 2 .. MaxTime + 1
=============================================================================
