-------------------------- MODULE MCScheduleReload --------------------------
(***************************************************************************)
(* ScheduleReload with three requests on one definition: one that creates  *)
(* it and two whose reloads overlap, one of them perhaps a deletion.  One  *)
(* of the two schedules is a friendly name, the other is no cron           *)
(* expression at all.                                                      *)
(***************************************************************************)
EXTENDS ScheduleReload, TLC

Symmetry == Permutations(Calls) \cup Permutations(Paths)

=============================================================================
