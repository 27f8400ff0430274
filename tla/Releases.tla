------------------------------- MODULE Releases -------------------------------
(***************************************************************************)
(* New versions of the core and of the application, side by side.          *)
(***************************************************************************)
EXTENDS CoreUpgrade, AppUpdate

(* A core upgrade and an application update never leave the machine without a
   working version, and never install what was not asked for or was cancelled. *)
UpgradesKeepWorking == UpgradesKeepACore /\ UpdatesAreWanted

=============================================================================
