----------------------------- MODULE WarmupPlan -----------------------------
(***************************************************************************)
(* How a restore's Glacier warm-up is sized before anything is submitted   *)
(* (src/api/internal/restore/warmup_plan.go).  Times are in hours, copy    *)
(* expiries in days.                                                       *)
(***************************************************************************)
EXTENDS Integers

warmupBatchSize    == 1000
bulkThawMaxHours   == 48    \* the Deep Archive Bulk tier's SLA
warmupAttemptHours == 24

oneAttempt == 1     \* mutant: a batch that times out is not retried

maxWarmupAttempts  == 3

oneAttemptHours == warmupAttemptHours   \* mutant: the retries are forgotten

perBatchWaitHours  == warmupAttemptHours * maxWarmupAttempts

AtLeastOne(n) == IF n < 1 THEN 1 ELSE n

CeilDiv(a, b) == (a + b - 1) \div b

\* A data pack counts for half a GB, so the ceiling of packs/2 GB over the
\* rate is that of packs over twice the rate.
DownloadDays(dataPacks, rate) == CeilDiv(dataPacks, 2 * rate)

\* Mutant: a plan of one batch gets download headroom too.
AlwaysHeadroom(batches, dataPacks, rate) == DownloadDays(dataPacks, rate)

\* The download starts as soon as a single batch is warm, so only the copies
\* of several batches need to outlast it.
Headroom(batches, dataPacks, rate) ==
    IF batches > 1 THEN DownloadDays(dataPacks, rate) ELSE 0

ComputeWarmupPlan(dataPacks, downloadGBPerDay) ==
    LET packs   == AtLeastOne(dataPacks)
        batches == CeilDiv(packs, warmupBatchSize)
        dl      == Headroom(batches, packs, AtLeastOne(downloadGBPerDay))
    IN  [batches |-> batches,
         downloadDays |-> dl,
         timeout |-> perBatchWaitHours * batches + 24 * (dl + 1)]

\* Mutant: the batches still to thaw are forgotten.
ExpiryOfLastBatch(plan, k) == AtLeastOne(plan.downloadDays + 1)

\* E_k: how many days the restored copies of batch k live from their thaw.
ExpiryDays(plan, k) ==
    AtLeastOne(2 * (plan.batches - k) + plan.downloadDays + 1)

\* What the plans of the code look like: a restore of one batch gets no
\* download headroom, a longer one at least a day.
Plan == {p \in [batches : Nat \ {0}, downloadDays : Nat, timeout : Nat] :
            /\ p.batches = 1 <=> p.downloadDays = 0
            /\ p.timeout = perBatchWaitHours * p.batches
                            + 24 * (p.downloadDays + 1)}

=============================================================================
