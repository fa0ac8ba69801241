------------------------------- MODULE LogFeed -------------------------------
(***************************************************************************)
(* What GET /api/jobs/{id}/stream promises its client: while the feed is   *)
(* open it only ever appends lines, each later in the log than the ones     *)
(* before; one last event carries the verdict of the job, and nothing       *)
(* follows it.  Lines may be missing.  The feed of a new connection starts  *)
(* over.  JobLog implements it.                                             *)
(***************************************************************************)
EXTENDS Integers, Sequences, SequencesExt

VARIABLES status,   \* the status of the job
          open,     \* the client is connected
          log,      \* the places in the log of the lines it has received
          verdict   \* the event that ended its feed, or "none"

feed == <<open, log, verdict>>
vars == <<status, feed>>

Increasing(s) == \A i, j \in 1 .. Len(s) : i < j => s[i] < s[j]

Init == status = "absent" /\ open = FALSE /\ log = <<>> /\ verdict = "none"

\* The job begins or ends.
Job == /\ \/ status = "absent" /\ status' = "running"
          \/ status = "running" /\ status' \in {"completed", "failed", "cancelled"}
       /\ UNCHANGED feed

Open == /\ ~open /\ status # "absent"
        /\ open' = TRUE /\ log' = <<>> /\ verdict' = "none"
        /\ UNCHANGED status

Deliver == /\ open
           /\ IsPrefix(log, log') /\ Increasing(log')
           /\ UNCHANGED <<status, open, verdict>>

Finish == /\ open /\ status \in {"completed", "failed"}
          /\ open' = FALSE /\ verdict' = status
          /\ UNCHANGED <<status, log>>

Leave == open /\ open' = FALSE /\ UNCHANGED <<status, log, verdict>>

\* The server restarts: the connection is gone and a running job has failed.
Crash == /\ status' = IF status = "running" THEN "failed" ELSE status
         /\ open' = FALSE /\ log' = <<>> /\ verdict' = "none"

Next == Job \/ Open \/ Deliver \/ Finish \/ Leave \/ Crash

Spec == Init /\ [][Next]_vars
=============================================================================
