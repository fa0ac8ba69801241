------------------------- MODULE MCRestoreLifecycle -------------------------
(***************************************************************************)
(* RestoreLifecycle on one job, a two-batch index and a bounded number of  *)
(* restarts.  Jobs meet only in the reconciliation's row set, so one job   *)
(* shows every interleaving of its two runs with the restarts.             *)
(***************************************************************************)
EXTENDS RestoreLifecycle

=============================================================================
