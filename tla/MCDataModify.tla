----------------------------- MODULE MCDataModify -----------------------------
(* Instances of DataModify for TLC: three profile commands that edit the
   profiles layer, and the restore of a failed switch, which stages a draft and
   applies it (cmd/profile.rs). *)
EXTENDS DataModify, TLC

CONSTANTS append, patch, update, restore

MCModifiers == {append, patch, update}
OneWriter == {restore}

=============================================================================
