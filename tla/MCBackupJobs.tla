---------------------------- MODULE MCBackupJobs ----------------------------
(***************************************************************************)
(* BackupJobs on two jobs of one definition: two jobs are enough for one   *)
(* to sync, or to be cut off from syncing, the other's snapshot, and the   *)
(* definition may be deleted under both.                                   *)
(***************************************************************************)
EXTENDS BackupJobs

=============================================================================
