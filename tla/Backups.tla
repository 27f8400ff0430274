-------------------------------- MODULE Backups --------------------------------
(***************************************************************************)
(* Automatic backups and restores, side by side.                           *)
(***************************************************************************)
EXTENDS AutoBackup, Restore

(* Backups are made when they are due and kept while they are new; a restore
   leaves files, layers and credentials that agree. *)
BackupsAgree == AutoBackupsAreKept /\ RestoresAgree

=============================================================================
