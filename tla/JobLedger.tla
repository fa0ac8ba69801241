------------------------------ MODULE JobLedger ------------------------------
(***************************************************************************)
(* What the table backup_jobs promises to whoever reads it: a job is        *)
(* entered once as running, gets one verdict that stands, and its user is   *)
(* told of a success exactly when that is the verdict.  A crash fails every *)
(* running job at once.  BackupJobs implements it.                          *)
(***************************************************************************)
EXTENDS Naturals

CONSTANT Jobs

VARIABLES status,   \* job -> its verdict, "running" or "absent"
          told      \* job -> notices of its success

Init == /\ status = [j \in Jobs |-> "absent"]
        /\ told = [j \in Jobs |-> 0]

Begin(j) == /\ status[j] = "absent"
            /\ status' = [status EXCEPT ![j] = "running"]
            /\ UNCHANGED told

Complete(j) == /\ status[j] = "running"
               /\ status' = [status EXCEPT ![j] = "completed"]
               /\ told' = [told EXCEPT ![j] = @ + 1]

Conclude(j, verdict) == /\ status[j] = "running"
                        /\ status' = [status EXCEPT ![j] = verdict]
                        /\ UNCHANGED told

Crash == /\ status' = [j \in Jobs |-> IF status[j] = "running" THEN "failed"
                                                               ELSE status[j]]
         /\ UNCHANGED told

Next == \/ \E j \in Jobs : Begin(j) \/ Complete(j)
        \/ \E j \in Jobs, v \in {"failed", "cancelled"} : Conclude(j, v)
        \/ Crash

Spec == Init /\ [][Next]_<<status, told>>
=============================================================================
