------------------------------ MODULE MCJobLog ------------------------------
(***************************************************************************)
(* JobLog with a buffer of three lines and a log of up to five, so that    *)
(* the buffer wraps before, between and after the polls of a stream, and   *)
(* more than once over one slot.                                           *)
(***************************************************************************)
EXTENDS JobLog

\* The value of MaxLines.
FewLines == [w \in Writers |-> IF w = "job" THEN 4 ELSE 1]

=============================================================================
