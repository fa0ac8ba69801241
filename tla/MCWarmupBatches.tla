-------------------------- MODULE MCWarmupBatches --------------------------
(***************************************************************************)
(* WarmupBatches on plans of one, two and three batches of two packs.      *)
(* Every boundary of the formulas is a multiple of a day, so steps of a    *)
(* day put a thaw before, on and after each of them.                       *)
(***************************************************************************)
EXTENDS WarmupBatches

=============================================================================
